---- MODULE Spec2Model ----
(***************************************************************************)
(* A model of the three Solidity contracts of the repository: DEX          *)
(* (src/unnamed/part_000), PiCoin and LiquidityPool                        *)
(* (src/dex-pi-coin/contracts).                                            *)
(*                                                                         *)
(* One action is one transaction: the whole entry point, its modifiers,    *)
(* the external token calls it makes and the EVM's rollback of every write *)
(* when the call reverts.  An entry point is an operator from a contract   *)
(* state ("world") to a result [err, w]: err = "" on success, the revert   *)
(* reason otherwise, and w the storage reached at that point (the storage  *)
(* at the point of failure when err # "").                                 *)
(*                                                                         *)
(* The contracts share no storage and never call each other, so a          *)
(* behaviour addresses one of them; `contract` names it.  The backend's    *)
(* price streams (binanceAPI.js) are a fourth, separate component.         *)
(***************************************************************************)
EXTENDS Integers, Sequences, FiniteSets, TLC

\* ------------------------------------------------------------------ bounds
MaxAmount == 2         \* the largest amount a call passes
MaxReserve == 3        \* cap on the recorded reserves of one token, summed over the pools
MaxSupply == 4         \* cap on PiCoin's total supply (a uint256 in the code)
MaxEth == 1            \* cap on the ETH sent to PiCoin's receive()
MaxDepth == 3          \* internal call depth at which the EVM runs out of gas
UintBits == 30         \* width of an unsigned integer (256 in the code)
MaxQuote == 4          \* getAmountOut is tried on 0 .. MaxQuote and on QuoteLarge
MaxSockets == 3        \* cap on the WebSockets the backend creates in one run

\* ------------------------------------------------------------- identities
Users == {"alice", "bob"}
Deployer == "alice"                      \* msg.sender of the constructors
Tokens == {"X", "Y"}
MainPair == <<"X", "Y">>
MirrorPair == <<"Y", "X">>
Pairs == {MainPair, MirrorPair}          \* the keys of liquidityPools that calls use
DEXAddr == "dex"                         \* address(this) in DEX
Holders == Users \cup {DEXAddr}
Amounts == 0 .. MaxAmount
\* The pooled tokens at the start: three X and two Y with the deployer, one of
\* each with the other user, none in the DEX's custody.
InitialBalance(t, h) ==
    IF h = Deployer THEN (IF t = "X" THEN 3 ELSE 2) ELSE IF h \in Users THEN 1 ELSE 0

\* ReentrancyGuard's _status values
NOT_ENTERED == 1
ENTERED == 2

\* revert reasons
Paused == "Pausable: paused"
NotPaused == "Pausable: not paused"
Reentrant == "ReentrancyGuard: reentrant call"
Unauthorized == "Ownable: caller is not the owner"
Underflow == "SafeMath: subtraction overflow"
ExceedsBalance == "ERC20: transfer amount exceeds balance"
Refused == "ERC20: transfer refused"
InvalidAmounts == "Invalid amounts"
InvalidAmount == "Invalid amount"
InsufficientLiquidity == "Insufficient liquidity"
PoolNotFound == "Liquidity pool does not exist"
InsufficientOutput == "Insufficient output amount"
NoFees == "No fees to withdraw"
FeeTooHigh == "Fee cannot exceed 100%"

VARIABLES
    contract,         \* the contract this behaviour's transactions address
    liquidityPools,   \* DEX: pair -> Pool
    userLiquidity,    \* DEX: pair -> holder -> shares
    feePercentage,    \* DEX
    dexPaused,        \* DEX: Pausable._paused
    dexStatus,        \* DEX: ReentrancyGuard._status
    tokenBalance,     \* the pooled ERC20s: token -> holder -> balance
    piBalances,       \* PiCoin: ERC20._balances
    piTotalSupply,    \* PiCoin: ERC20._totalSupply
    priceFeed,        \* PiCoin
    transactionFee,   \* PiCoin
    totalFeesCollected,  \* PiCoin
    piPaused,         \* PiCoin: Pausable._paused
    piEth,            \* PiCoin: the contract's ETH balance
    lpTotalSupply,    \* LiquidityPool: totalSupply
    lpBalances,       \* LiquidityPool: balances
    lpPaused,         \* LiquidityPool: Pausable._paused
    lpStatus,         \* LiquidityPool: ReentrancyGuard._status
    lpTokenBalance,   \* LiquidityPool's token: holder -> balance
    quoteIn,          \* the arguments of a call of getAmountOut
    quoteOut,         \* what that call returned, NoQuote before it
    wsClients,        \* binanceAPI.js: symbol -> the WebSocket kept for it, NoSocket if none
    sockets,          \* the WebSockets created so far, in order: symbol and readyState
    timers,           \* symbol -> pending setTimeout reconnects
    lastCall          \* symbol -> the caller's last call of the BinanceAPI class for it

dexVars == <<liquidityPools, userLiquidity, feePercentage, dexPaused, dexStatus,
             tokenBalance>>
piVars == <<piBalances, piTotalSupply, priceFeed, transactionFee, totalFeesCollected,
            piPaused, piEth>>
lpVars == <<lpTotalSupply, lpBalances, lpPaused, lpStatus, lpTokenBalance>>
quoteVars == <<quoteIn, quoteOut>>
streamVars == <<wsClients, sockets, timers, lastCall>>
vars == <<contract, dexVars, piVars, lpVars, quoteVars, streamVars>>

\* --------------------------------------------------------------- results
Ok(w) == [err |-> "", w |-> w]
Fail(e, w) == [err |-> e, w |-> w]

Event(name, args) == [ev |-> name, args |-> args]
Emit(w, name, args) == [w EXCEPT !.log = Append(@, Event(name, args))]

\* A broken revert that keeps the writes made up to the failure.
RevertKeepsWrites(w0, r) == r.w

\* A revert undoes every storage write and every event of the call: the world
\* after a failed call is the world w0 before it.
Revert(w0, r) == w0
Outcome(w0, r) == IF r.err = "" THEN r.w ELSE Revert(w0, r)

\* ----------------------------------------------------- token behaviours
\* What the external token does at the at-th transfer of a call: move the
\* amount (honest), revert (refuse: no allowance, a paused or hostile token),
\* move nothing and return false (IERC20's transfer and transferFrom return a
\* bool, which the contracts discard), or first run a callback that calls back
\* into the contract as the outer caller (a hook), catches the nested call's
\* failure, and then moves the amount.
NoNested == [fn |-> "none", err |-> "", locked |-> FALSE, changed |-> FALSE, reserves |-> <<>>]
HonestToken == [at |-> 0, kind |-> "honest", fn |-> "none"]
NestedFns == {"swapTokens", "addLiquidity", "removeLiquidity", "withdrawFees"}
TokenBehaviours ==
    {HonestToken}
    \cup {[at |-> i, kind |-> k, fn |-> "none"] : i \in 1 .. 2, k \in {"refuse", "false"}}
    \cup {[at |-> i, kind |-> "hook", fn |-> f] : i \in 1 .. 2, f \in NestedFns}
BehAt(beh, i) == IF beh.at = i THEN beh ELSE HonestToken

SafeSub(a, b) == IF b > a THEN -1 ELSE a - b

\* The largest unsigned integer, and SafeMath's mul and add: -1 stands for the
\* revert on overflow.  The comparisons are written so that no intermediate
\* value exceeds UINT_MAX.
UINT_MAX == (2 ^ (UintBits - 1) - 1) * 2 + 1
SafeMul(a, b) == IF a = 0 \/ b = 0 THEN 0 ELSE IF a > UINT_MAX \div b THEN -1 ELSE a * b
SafeAdd(a, b) == IF a > UINT_MAX - b THEN -1 ELSE a + b
MulOverflow == "SafeMath: multiplication overflow"
AddOverflow == "SafeMath: addition overflow"

\* What became of each token transfer the call has attempted so far, in order:
\* "moved", "false" (nothing moved, false returned) or "reverted".
Noted(w, how) == [w EXCEPT !.transfers = Append(@, how)]

\* ------------------------------------------------------------ ERC20 token
\* IERC20.transfer / transferFrom of an honest token: all or nothing.  The
\* allowance is taken as granted; a missing one is the "refuse" behaviour.
ERC20Move(w, token, from, to, amount) ==
    IF w.tokenBalance[token][from] < amount
    THEN Fail(ExceedsBalance, Noted(w, "reverted"))
    ELSE Ok(Noted([w EXCEPT !.tokenBalance[token][from] = @ - amount,
                            !.tokenBalance[token][to] = @ + amount], "moved"))

OtherToken(t) == CHOOSE u \in Tokens : u # t

DEXCallRecord(fn, sender, tokenA, tokenB, amountA, amountB, beh) ==
    [fn |-> fn, sender |-> sender, tokenA |-> tokenA, tokenB |-> tokenB,
     amountA |-> amountA, amountB |-> amountB, beh |-> beh]

RECURSIVE DEXCall(_, _)
RECURSIVE Callback(_, _, _, _)
RECURSIVE TokenCall(_, _, _, _, _, _, _)

\* The callback a hostile token runs inside transfer/transferFrom: one nested
\* call into the DEX on the token's own pair, as the outer msg.sender, inside
\* try/catch (a nested revert undoes the nested call's writes only).
Callback(w, fn, token, sender) ==
    LET c == DEXCallRecord(fn, sender, token, OtherToken(token), 1, 1, HonestToken)
        r == DEXCall(w, c)
        w1 == Outcome(w, r)
    IN  [w1 EXCEPT !.transfers = w.transfers,
                   !.nested = [fn |-> fn, err |-> r.err, locked |-> (w.status = ENTERED),
                               changed |-> (w1 # w), reserves |-> w.liquidityPools]]

TokenCall(w, token, from, to, amount, beh, sender) ==
    CASE beh.kind = "refuse" -> Fail(Refused, Noted(w, "reverted"))
      [] beh.kind = "false" -> Ok(Noted(w, "false"))
      [] beh.kind = "hook" ->
            ERC20Move(Callback(w, beh.fn, token, sender), token, from, to, amount)
      [] OTHER -> ERC20Move(w, token, from, to, amount)

\* ------------------------------------------------------------------- DEX
\* A broken guard that takes the lock without looking at it.
nonReentrantBeforeUnchecked(w) == Ok([w EXCEPT !.status = ENTERED])

\* A broken guard that never gives the lock back.
nonReentrantAfterKeepsLock(r) == r

\* ReentrancyGuard.nonReentrant: before and after the body.
nonReentrantBefore(w) ==
    IF w.status = ENTERED THEN Fail(Reentrant, w)
    ELSE Ok([w EXCEPT !.status = ENTERED])

nonReentrantAfter(r) ==
    IF r.err # "" THEN r ELSE Ok([r.w EXCEPT !.status = NOT_ENTERED])

\* getAmountOut with reserveIn left out of the denominator.
getAmountOutWithoutReserveIn(amountIn, reserveIn, reserveOut) ==
    IF ~(amountIn > 0) THEN [err |-> "Amount in must be greater than zero", out |-> 0]
    ELSE IF ~(reserveIn > 0 /\ reserveOut > 0) THEN [err |-> InsufficientLiquidity, out |-> 0]
    ELSE LET amountInWithFee == SafeMul(amountIn, 997)
         IN  IF amountInWithFee < 0 THEN [err |-> MulOverflow, out |-> 0] ELSE
         LET numerator == SafeMul(amountInWithFee, reserveOut)
         IN  IF numerator < 0 THEN [err |-> MulOverflow, out |-> 0] ELSE
             [err |-> "", out |-> numerator \div amountInWithFee]

\* getAmountOut with the fee factor left out of the numerator.
getAmountOutFeeless(amountIn, reserveIn, reserveOut) ==
    IF ~(amountIn > 0) THEN [err |-> "Amount in must be greater than zero", out |-> 0]
    ELSE IF ~(reserveIn > 0 /\ reserveOut > 0) THEN [err |-> InsufficientLiquidity, out |-> 0]
    ELSE LET amountInWithFee == SafeMul(amountIn, 997)
         IN  IF amountInWithFee < 0 THEN [err |-> MulOverflow, out |-> 0] ELSE
         LET numerator == SafeMul(amountIn, reserveOut)
         IN  IF numerator < 0 THEN [err |-> MulOverflow, out |-> 0] ELSE
         LET thousand == SafeMul(reserveIn, 1000)
         IN  IF thousand < 0 THEN [err |-> MulOverflow, out |-> 0] ELSE
         LET denominator == SafeAdd(thousand, amountInWithFee)
         IN  IF denominator < 0 THEN [err |-> AddOverflow, out |-> 0] ELSE
             [err |-> "", out |-> numerator \div denominator]

\* getAmountOut: [err, out]; a pure function that reverts on a zero argument
\* and on an overflow of its SafeMath operations.
getAmountOut(amountIn, reserveIn, reserveOut) ==
    IF ~(amountIn > 0) THEN [err |-> "Amount in must be greater than zero", out |-> 0]
    ELSE IF ~(reserveIn > 0 /\ reserveOut > 0) THEN [err |-> InsufficientLiquidity, out |-> 0]
    ELSE LET amountInWithFee == SafeMul(amountIn, 997)
         IN  IF amountInWithFee < 0 THEN [err |-> MulOverflow, out |-> 0] ELSE
         LET numerator == SafeMul(amountInWithFee, reserveOut)
         IN  IF numerator < 0 THEN [err |-> MulOverflow, out |-> 0] ELSE
         LET thousand == SafeMul(reserveIn, 1000)
         IN  IF thousand < 0 THEN [err |-> MulOverflow, out |-> 0] ELSE
         LET denominator == SafeAdd(thousand, amountInWithFee)
         IN  IF denominator < 0 THEN [err |-> AddOverflow, out |-> 0] ELSE
             [err |-> "", out |-> numerator \div denominator]

\* Ownable: the constructor makes the deployer the owner.  transferOwnership
\* and renounceOwnership are never called, so the owner stays the deployer.
owner == Deployer

\* A broken modifier that lets every caller through.
onlyOwnerAnyone(sender) == TRUE

onlyOwner(sender) == sender = owner

\* Twice the shares for a deposit.
liquidityAddedDoubled(amountA, amountB) == 2 * (amountA + amountB)

\* Shares issued for the first amount only.
liquidityOfFirstAmount(amountA, amountB) == amountA

\* The shares a deposit issues: amountA.add(amountB).
liquidityAdded(amountA, amountB) == amountA + amountB

\* addLiquidity's body without the credit to the caller's shares.
\* (addLiquidityBodyBothKeys, below it, credits the caller and also writes the
\* pool keyed the other way round.)
addLiquidityBodyNoCredit(w, c) ==
    IF ~(c.amountA > 0 /\ c.amountB > 0) THEN Fail(InvalidAmounts, w) ELSE
    LET r1 == TokenCall(w, c.tokenA, c.sender, DEXAddr, c.amountA, BehAt(c.beh, 1), c.sender)
    IN  IF r1.err # "" THEN r1 ELSE
    LET r2 == TokenCall(r1.w, c.tokenB, c.sender, DEXAddr, c.amountB, BehAt(c.beh, 2), c.sender)
    IN  IF r2.err # "" THEN r2 ELSE
    LET p == <<c.tokenA, c.tokenB>>
        w3 == [r2.w EXCEPT
                 !.liquidityPools[p].tokenAAmount = @ + c.amountA,
                 !.liquidityPools[p].tokenBAmount = @ + c.amountB,
                 !.liquidityPools[p].totalLiquidity = @ + liquidityAdded(c.amountA, c.amountB)]
    IN  Ok(Emit(w3, "LiquidityAdded", <<c.tokenA, c.tokenB, c.amountA, c.amountB>>))

addLiquidityBodyBothKeys(w, c) ==
    LET r == addLiquidityBodyNoCredit(w, c)
        p == <<c.tokenA, c.tokenB>>
        q == <<c.tokenB, c.tokenA>>
    IN  IF r.err # "" \/ q \notin DOMAIN w.liquidityPools THEN r ELSE
        Ok([r.w EXCEPT
              !.userLiquidity[p][c.sender] = @ + liquidityAdded(c.amountA, c.amountB),
              !.liquidityPools[q].tokenAAmount = @ + c.amountB,
              !.liquidityPools[q].tokenBAmount = @ + c.amountA,
              !.liquidityPools[q].totalLiquidity = @ + liquidityAdded(c.amountA, c.amountB)])

addLiquidityBody(w, c) ==
    IF ~(c.amountA > 0 /\ c.amountB > 0) THEN Fail(InvalidAmounts, w) ELSE
    LET r1 == TokenCall(w, c.tokenA, c.sender, DEXAddr, c.amountA, BehAt(c.beh, 1), c.sender)
    IN  IF r1.err # "" THEN r1 ELSE
    LET r2 == TokenCall(r1.w, c.tokenB, c.sender, DEXAddr, c.amountB, BehAt(c.beh, 2), c.sender)
    IN  IF r2.err # "" THEN r2 ELSE
    LET p == <<c.tokenA, c.tokenB>>
        w3 == [r2.w EXCEPT
                 !.liquidityPools[p].tokenAAmount = @ + c.amountA,
                 !.liquidityPools[p].tokenBAmount = @ + c.amountB,
                 !.liquidityPools[p].totalLiquidity = @ + liquidityAdded(c.amountA, c.amountB),
                 !.userLiquidity[p][c.sender] = @ + liquidityAdded(c.amountA, c.amountB)]
    IN  Ok(Emit(w3, "LiquidityAdded", <<c.tokenA, c.tokenB, c.amountA, c.amountB>>))

addLiquidity(w, c) ==
    IF w.paused THEN Fail(Paused, w) ELSE
    LET e == nonReentrantBefore(w)
    IN  IF e.err # "" THEN e ELSE nonReentrantAfter(addLiquidityBody(e.w, c))

\* A withdrawal that does not look at the reserves before taking from them.
reservesAssumed(pool, amountA, amountB) == TRUE

\* require(pool.tokenAAmount >= amountA && pool.tokenBAmount >= amountB)
reservesCover(pool, amountA, amountB) ==
    pool.tokenAAmount >= amountA /\ pool.tokenBAmount >= amountB

\* Shares taken from a holder down to zero at most, without the check.
sharesLeftFloored(held, amount) == IF amount > held THEN 0 ELSE held - amount

\* userLiquidity[tokenA][tokenB][msg.sender].sub(amountA.add(amountB))
sharesLeft(held, amount) == SafeSub(held, amount)

removeLiquidityBody(w, c) ==
    IF ~(c.amountA > 0 /\ c.amountB > 0) THEN Fail(InvalidAmounts, w) ELSE
    LET p == <<c.tokenA, c.tokenB>>
        pool == w.liquidityPools[p]
    IN  IF ~reservesCover(pool, c.amountA, c.amountB)
        THEN Fail(InsufficientLiquidity, w) ELSE
    LET leftA == SafeSub(pool.tokenAAmount, c.amountA)
        leftB == SafeSub(pool.tokenBAmount, c.amountB)
    IN  IF leftA < 0 \/ leftB < 0 THEN Fail(Underflow, w) ELSE
    LET w1 == [w EXCEPT !.liquidityPools[p].tokenAAmount = leftA,
                        !.liquidityPools[p].tokenBAmount = leftB]
        total == SafeSub(pool.totalLiquidity, c.amountA + c.amountB)
    IN  IF total < 0 THEN Fail(Underflow, w1) ELSE
    LET w2 == [w1 EXCEPT !.liquidityPools[p].totalLiquidity = total]
        mine == sharesLeft(w2.userLiquidity[p][c.sender], c.amountA + c.amountB)
    IN  IF mine < 0 THEN Fail(Underflow, w2) ELSE
    LET w3 == [w2 EXCEPT !.userLiquidity[p][c.sender] = mine]
        r1 == TokenCall(w3, c.tokenA, DEXAddr, c.sender, c.amountA, BehAt(c.beh, 1), c.sender)
    IN  IF r1.err # "" THEN r1 ELSE
    LET r2 == TokenCall(r1.w, c.tokenB, DEXAddr, c.sender, c.amountB, BehAt(c.beh, 2), c.sender)
    IN  IF r2.err # "" THEN r2 ELSE
        Ok(Emit(r2.w, "LiquidityRemoved", <<c.tokenA, c.tokenB, c.amountA, c.amountB>>))

removeLiquidity(w, c) ==
    IF w.paused THEN Fail(Paused, w) ELSE
    LET e == nonReentrantBefore(w)
    IN  IF e.err # "" THEN e ELSE nonReentrantAfter(removeLiquidityBody(e.w, c))

\* The three requirements of swapTokens, each with a broken variant that
\* lets everything through.
amountInAccepted(amountIn) == TRUE
amountInValid(amountIn) == amountIn > 0
poolAssumed(pool) == TRUE
poolExists(pool) == pool.tokenAAmount > 0 /\ pool.tokenBAmount > 0
amountOutAccepted(amountOut) == TRUE
amountOutSufficient(amountOut) == amountOut > 0

\* A swap that skims nothing from the amount paid in.
swapFeeNone(amountIn, percentage) == 0

\* A swap that skims the whole amount paid in, whatever the percentage.
swapFeeWhole(amountIn, percentage) == amountIn

\* The skim fee of a swap: amountIn.mul(feePercentage).div(100).
swapFee(amountIn, percentage) == (amountIn * percentage) \div 100

\* A swap that writes the reserves first and makes its transfers afterwards.
swapTokensBodyWritingFirst(w, c) ==
    IF ~amountInValid(c.amountA) THEN Fail(InvalidAmount, w) ELSE
    LET p == <<c.tokenA, c.tokenB>>
        pool == w.liquidityPools[p]
    IN  IF ~poolExists(pool) THEN Fail(PoolNotFound, w) ELSE
    LET q == getAmountOut(c.amountA, pool.tokenAAmount, pool.tokenBAmount)
    IN  IF q.err # "" THEN Fail(q.err, w) ELSE
    LET amountOut == q.out
    IN  IF ~amountOutSufficient(amountOut) THEN Fail(InsufficientOutput, w) ELSE
    LET fee == swapFee(c.amountA, w.feePercentage)
        amountInAfterFee == SafeSub(c.amountA, fee)
    IN  IF amountInAfterFee < 0 THEN Fail(Underflow, w) ELSE
    LET w1 == [w EXCEPT !.liquidityPools[p].tokenAAmount = @ + amountInAfterFee]
        out == SafeSub(w1.liquidityPools[p].tokenBAmount, amountOut)
    IN  IF out < 0 THEN Fail(Underflow, w1) ELSE
    LET w2 == [w1 EXCEPT !.liquidityPools[p].tokenBAmount = out]
        r1 == TokenCall(w2, c.tokenA, c.sender, DEXAddr, c.amountA, BehAt(c.beh, 1), c.sender)
    IN  IF r1.err # "" THEN r1 ELSE
    LET r2 == TokenCall(r1.w, c.tokenB, DEXAddr, c.sender, amountOut, BehAt(c.beh, 2), c.sender)
    IN  IF r2.err # "" THEN r2 ELSE
        Ok(Emit(r2.w, "TokensSwapped", <<c.tokenA, c.tokenB, c.amountA, amountOut>>))

swapTokensBody(w, c) ==
    IF ~amountInValid(c.amountA) THEN Fail(InvalidAmount, w) ELSE
    LET p == <<c.tokenA, c.tokenB>>
        pool == w.liquidityPools[p]
    IN  IF ~poolExists(pool) THEN Fail(PoolNotFound, w) ELSE
    LET q == getAmountOut(c.amountA, pool.tokenAAmount, pool.tokenBAmount)
    IN  IF q.err # "" THEN Fail(q.err, w) ELSE
    LET amountOut == q.out
    IN  IF ~amountOutSufficient(amountOut) THEN Fail(InsufficientOutput, w) ELSE
    LET fee == swapFee(c.amountA, w.feePercentage)
        amountInAfterFee == SafeSub(c.amountA, fee)
    IN  IF amountInAfterFee < 0 THEN Fail(Underflow, w) ELSE
    LET r1 == TokenCall(w, c.tokenA, c.sender, DEXAddr, c.amountA, BehAt(c.beh, 1), c.sender)
    IN  IF r1.err # "" THEN r1 ELSE
    LET r2 == TokenCall(r1.w, c.tokenB, DEXAddr, c.sender, amountOut, BehAt(c.beh, 2), c.sender)
    IN  IF r2.err # "" THEN r2 ELSE
    LET w3 == [r2.w EXCEPT !.liquidityPools[p].tokenAAmount = @ + amountInAfterFee]
        out == SafeSub(w3.liquidityPools[p].tokenBAmount, amountOut)
    IN  IF out < 0 THEN Fail(Underflow, w3) ELSE
        Ok(Emit([w3 EXCEPT !.liquidityPools[p].tokenBAmount = out],
                "TokensSwapped", <<c.tokenA, c.tokenB, c.amountA, amountOut>>))

\* swapTokens without whenNotPaused.
swapTokensIgnoringPause(w, c) ==
    LET e == nonReentrantBefore(w)
    IN  IF e.err # "" THEN e ELSE nonReentrantAfter(swapTokensBody(e.w, c))

swapTokens(w, c) ==
    IF w.paused THEN Fail(Paused, w) ELSE
    LET e == nonReentrantBefore(w)
    IN  IF e.err # "" THEN e ELSE nonReentrantAfter(swapTokensBody(e.w, c))

\* withdrawFees that also writes off the recorded reserves of the token paid out.
withdrawFeesClearingReserves(w, c) ==
    IF ~onlyOwner(c.sender) THEN Fail(Unauthorized, w) ELSE
    LET amount == w.tokenBalance[c.tokenA][DEXAddr]
    IN  IF ~(amount > 0) THEN Fail(NoFees, w) ELSE
    LET r1 == TokenCall(w, c.tokenA, DEXAddr, c.sender, amount, BehAt(c.beh, 1), c.sender)
    IN  IF r1.err # "" THEN r1 ELSE
        Ok(Emit([r1.w EXCEPT !.liquidityPools =
                    [p \in DOMAIN @ |->
                        [@[p] EXCEPT !.tokenAAmount = IF p[1] = c.tokenA THEN 0 ELSE @,
                                     !.tokenBAmount = IF p[2] = c.tokenA THEN 0 ELSE @]]],
                 "FeesWithdrawn", <<c.tokenA, amount>>))

\* withdrawFees(token): c.tokenA is the token.
withdrawFees(w, c) ==
    IF ~onlyOwner(c.sender) THEN Fail(Unauthorized, w) ELSE
    LET amount == w.tokenBalance[c.tokenA][DEXAddr]
    IN  IF ~(amount > 0) THEN Fail(NoFees, w) ELSE
    LET r1 == TokenCall(w, c.tokenA, DEXAddr, c.sender, amount, BehAt(c.beh, 1), c.sender)
    IN  IF r1.err # "" THEN r1 ELSE
        Ok(Emit(r1.w, "FeesWithdrawn", <<c.tokenA, amount>>))

\* updateFeePercentage without the bound on newFee.
updateFeePercentageUnbounded(w, c) ==
    IF ~onlyOwner(c.sender) THEN Fail(Unauthorized, w) ELSE
    Ok([w EXCEPT !.feePercentage = c.amountA])

\* updateFeePercentage(newFee): c.amountA is newFee.
updateFeePercentage(w, c) ==
    IF ~onlyOwner(c.sender) THEN Fail(Unauthorized, w) ELSE
    IF ~(c.amountA <= 100) THEN Fail(FeeTooHigh, w) ELSE
    Ok([w EXCEPT !.feePercentage = c.amountA])

\* Pausable._pause / _unpause
PausableDoPause(w, sender) ==
    IF w.paused THEN Fail(Paused, w)
    ELSE Ok(Emit([w EXCEPT !.paused = TRUE], "Paused", <<sender>>))

PausableDoUnpause(w, sender) ==
    IF ~w.paused THEN Fail(NotPaused, w)
    ELSE Ok(Emit([w EXCEPT !.paused = FALSE], "Unpaused", <<sender>>))

pause(w, c) ==
    IF ~onlyOwner(c.sender) THEN Fail(Unauthorized, w) ELSE PausableDoPause(w, c.sender)

unpause(w, c) ==
    IF ~onlyOwner(c.sender) THEN Fail(Unauthorized, w) ELSE PausableDoUnpause(w, c.sender)

DEXCall(w, c) ==
    CASE c.fn = "addLiquidity" -> addLiquidity(w, c)
      [] c.fn = "removeLiquidity" -> removeLiquidity(w, c)
      [] c.fn = "swapTokens" -> swapTokens(w, c)
      [] c.fn = "withdrawFees" -> withdrawFees(w, c)
      [] c.fn = "updateFeePercentage" -> updateFeePercentage(w, c)
      [] c.fn = "pause" -> pause(w, c)
      [] c.fn = "unpause" -> unpause(w, c)

\* The DEX's storage, the pooled tokens' balances and the receipt under
\* construction, as one value.
DEXWorld ==
    [liquidityPools |-> liquidityPools, userLiquidity |-> userLiquidity,
     feePercentage |-> feePercentage, paused |-> dexPaused, status |-> dexStatus,
     tokenBalance |-> tokenBalance, log |-> <<>>, transfers |-> <<>>, nested |-> NoNested]

\* The recorded amount of token t over all pools, and the shares over all pools.
RecordedReserve(pools, t) ==
    pools[<<t, OtherToken(t)>>].tokenAAmount + pools[<<OtherToken(t), t>>].tokenBAmount
RecordedShares(pools) == pools[MainPair].totalLiquidity + pools[MirrorPair].totalLiquidity

\* One transaction to the DEX: run the call, roll back if it reverted.  The
\* recorded reserves and shares are uint256 in the code and capped here.
DEXCommit(w1) ==
    /\ \A t \in Tokens : RecordedReserve(w1.liquidityPools, t) <= MaxReserve
    /\ RecordedShares(w1.liquidityPools) <= 2 * MaxReserve
    /\ liquidityPools' = w1.liquidityPools
    /\ userLiquidity' = w1.userLiquidity
    /\ feePercentage' = w1.feePercentage
    /\ dexPaused' = w1.paused
    /\ dexStatus' = w1.status
    /\ tokenBalance' = w1.tokenBalance
    /\ UNCHANGED <<contract, piVars, lpVars, quoteVars, streamVars>>

DEXAfter(w, c) == Outcome(w, DEXCall(w, c))
DEXTransact(c) == DEXCommit(DEXAfter(DEXWorld, c))

\* The calls explored.  On the main pair with an honest token every amount is
\* tried; on the mirrored pair, and with a refusing or calling-back token, the
\* amounts are fixed.  A token that returns false is tried at the push of a
\* swap; a token that calls back is tried at both transfers of a swap, at the
\* first transfer of addLiquidity and removeLiquidity, and not in withdrawFees,
\* which holds no lock.
FeeChoices == {100, 101}
RefuseAt(n) == {b \in TokenBehaviours : b.at \in 1 .. n /\ b.kind = "refuse"}
HookAt(n) == {b \in TokenBehaviours : b.at \in 1 .. n /\ b.kind = "hook"}
FalseAt(n) == {b \in TokenBehaviours : b.at = n /\ b.kind = "false"}

LiquidityCalls(fn) ==
    {DEXCallRecord(fn, s, MainPair[1], MainPair[2], a, b, HonestToken) :
        s \in Users, a \in Amounts, b \in Amounts}
    \cup {DEXCallRecord(fn, s, MirrorPair[1], MirrorPair[2], 1, 1, HonestToken) : s \in Users}
    \cup {DEXCallRecord(fn, s, MainPair[1], MainPair[2], 1, 1, beh) :
        s \in Users, beh \in RefuseAt(2) \cup HookAt(1)}

AddLiquidityCalls == LiquidityCalls("addLiquidity")
RemoveLiquidityCalls == LiquidityCalls("removeLiquidity")

SwapTokensCalls ==
    {DEXCallRecord("swapTokens", s, MainPair[1], MainPair[2], a, 0, HonestToken) :
        s \in Users, a \in Amounts}
    \cup {DEXCallRecord("swapTokens", s, MirrorPair[1], MirrorPair[2], MaxAmount, 0, HonestToken) :
        s \in Users}
    \cup {DEXCallRecord("swapTokens", s, MainPair[1], MainPair[2], MaxAmount, 0, beh) :
        s \in Users, beh \in RefuseAt(2) \cup HookAt(2) \cup FalseAt(2)}

WithdrawFeesCalls ==
    {DEXCallRecord("withdrawFees", s, t, t, 0, 0, beh) :
        s \in Users, t \in Tokens, beh \in {HonestToken} \cup RefuseAt(1)}

UpdateFeePercentageCalls ==
    {DEXCallRecord("updateFeePercentage", s, "X", "X", f, 0, HonestToken) :
        s \in Users, f \in FeeChoices}

PauseCalls == {DEXCallRecord("pause", s, "X", "X", 0, 0, HonestToken) : s \in Users}
UnpauseCalls == {DEXCallRecord("unpause", s, "X", "X", 0, 0, HonestToken) : s \in Users}

DEXCalls ==
    AddLiquidityCalls \cup RemoveLiquidityCalls \cup SwapTokensCalls
    \cup WithdrawFeesCalls \cup UpdateFeePercentageCalls \cup PauseCalls \cup UnpauseCalls

AddLiquidity == contract = "DEX" /\ \E c \in AddLiquidityCalls : DEXTransact(c)
RemoveLiquidity == contract = "DEX" /\ \E c \in RemoveLiquidityCalls : DEXTransact(c)
SwapTokens == contract = "DEX" /\ \E c \in SwapTokensCalls : DEXTransact(c)
WithdrawFees == contract = "DEX" /\ \E c \in WithdrawFeesCalls : DEXTransact(c)
UpdateFeePercentage == contract = "DEX" /\ \E c \in UpdateFeePercentageCalls : DEXTransact(c)
Pause == contract = "DEX" /\ \E c \in PauseCalls : DEXTransact(c)
Unpause == contract = "DEX" /\ \E c \in UnpauseCalls : DEXTransact(c)

DEXNext ==
    \/ AddLiquidity
    \/ RemoveLiquidity
    \/ SwapTokens
    \/ WithdrawFees
    \/ UpdateFeePercentage
    \/ Pause
    \/ Unpause

\* ---------------------------------------------------------------- PiCoin
PiAddr == "picoin"                       \* address(this) in PiCoin
ZeroAddr == "0x0"                        \* address(0)
PiHolders == Users \cup {PiAddr}
\* Prices are in units of 10^18 wei.  The constructor's mint is scaled down:
\* TOTAL_SUPPLY is 10^11 tokens of 10^18 units in the code.
TOTAL_SUPPLY == 2
TARGET_PRICE == 314159
OutOfGas == "out of gas"
BurnExceedsBalance == "ERC20: burn amount exceeds balance"
TransferFeeTooHigh == "Fee cannot exceed 10%"
EthTransferFailed == "transfer failed"

PiCallRecord(fn, sender, to, amount) ==
    [fn |-> fn, sender |-> sender, to |-> to, amount |-> amount]

getCurrentPrice(w) == TARGET_PRICE

RECURSIVE ERC20InternalTransfer(_, _, _, _, _)
RECURSIVE beforeTokenTransfer(_, _, _, _, _)

\* PiCoin._beforeTokenTransfer, at internal call depth d.
beforeTokenTransfer(w, from, to, amount, d) ==
    IF w.paused THEN Fail(Paused, w) ELSE
    IF ~(from # ZeroAddr /\ to # ZeroAddr) THEN Ok(w) ELSE
    LET fee == (amount * w.transactionFee) \div 10000
        amountAfterFee == SafeSub(amount, fee)
    IN  IF amountAfterFee < 0 THEN Fail(Underflow, w) ELSE
    LET w1 == [w EXCEPT !.totalFeesCollected = @ + fee]
        r1 == ERC20InternalTransfer(w1, from, to, amountAfterFee, d + 1)
    IN  IF r1.err # "" THEN r1 ELSE
    LET r2 == ERC20InternalTransfer(r1.w, from, PiAddr, fee, d + 1)
    IN  IF r2.err # "" THEN r2 ELSE
        Ok(Emit(r2.w, "FeesCollected", <<fee>>))

\* ERC20._transfer: the hook first, then the balances.
ERC20InternalTransfer(w, from, to, amount, d) ==
    IF d > MaxDepth THEN Fail(OutOfGas, w) ELSE
    LET h == beforeTokenTransfer(w, from, to, amount, d)
    IN  IF h.err # "" THEN h ELSE
        IF h.w.balances[from] < amount THEN Fail(ExceedsBalance, h.w) ELSE
        Ok(Emit([h.w EXCEPT !.balances[from] = @ - amount, !.balances[to] = @ + amount],
                "Transfer", <<from, to, amount>>))

\* ERC20._mint and ERC20._burn
ERC20Mint(w, account, amount) ==
    LET h == beforeTokenTransfer(w, ZeroAddr, account, amount, 0)
    IN  IF h.err # "" THEN h ELSE
        Ok(Emit([h.w EXCEPT !.totalSupply = @ + amount, !.balances[account] = @ + amount],
                "Transfer", <<ZeroAddr, account, amount>>))

ERC20Burn(w, account, amount) ==
    LET h == beforeTokenTransfer(w, account, ZeroAddr, amount, 0)
    IN  IF h.err # "" THEN h ELSE
        IF h.w.balances[account] < amount THEN Fail(BurnExceedsBalance, h.w) ELSE
        Ok(Emit([h.w EXCEPT !.totalSupply = @ - amount, !.balances[account] = @ - amount],
                "Transfer", <<account, ZeroAddr, amount>>))

\* ERC20.transfer(to, amount)
piTransfer(w, c) == ERC20InternalTransfer(w, c.sender, c.to, c.amount, 0)

\* setPriceFeed(_priceFeed): c.to is the address.
setPriceFeed(w, c) ==
    IF ~onlyOwner(c.sender) THEN Fail(Unauthorized, w) ELSE
    Ok(Emit([w EXCEPT !.priceFeed = c.to], "PriceFeedUpdated", <<c.to>>))

\* adjustSupply that also mints when the price is at the target.
adjustSupplyMintingAtTarget(w, c) ==
    IF ~onlyOwner(c.sender) THEN Fail(Unauthorized, w) ELSE
    LET currentPrice == getCurrentPrice(w)
    IN  IF currentPrice <= TARGET_PRICE
        THEN LET amountToMint == (TARGET_PRICE - currentPrice) * 1000
                 r == ERC20Mint(w, c.sender, amountToMint)
             IN  IF r.err # "" THEN r ELSE Ok(Emit(r.w, "SupplyAdjusted", <<amountToMint>>))
        ELSE LET amountToBurn == (currentPrice - TARGET_PRICE) * 1000
                 r == ERC20Burn(w, c.sender, amountToBurn)
             IN  IF r.err # "" THEN r ELSE Ok(Emit(r.w, "SupplyAdjusted", <<amountToBurn>>))

adjustSupply(w, c) ==
    IF ~onlyOwner(c.sender) THEN Fail(Unauthorized, w) ELSE
    LET currentPrice == getCurrentPrice(w)
    IN  IF currentPrice < TARGET_PRICE
        THEN LET amountToMint == (TARGET_PRICE - currentPrice) * 1000
                 r == ERC20Mint(w, c.sender, amountToMint)
             IN  IF r.err # "" THEN r ELSE Ok(Emit(r.w, "SupplyAdjusted", <<amountToMint>>))
        ELSE IF currentPrice > TARGET_PRICE
        THEN LET amountToBurn == (currentPrice - TARGET_PRICE) * 1000
                 r == ERC20Burn(w, c.sender, amountToBurn)
             IN  IF r.err # "" THEN r ELSE Ok(Emit(r.w, "SupplyAdjusted", <<amountToBurn>>))
        ELSE Ok(w)

mint(w, c) ==
    IF ~onlyOwner(c.sender) THEN Fail(Unauthorized, w) ELSE ERC20Mint(w, c.to, c.amount)

burn(w, c) ==
    IF ~onlyOwner(c.sender) THEN Fail(Unauthorized, w) ELSE ERC20Burn(w, c.sender, c.amount)

piPause(w, c) ==
    IF ~onlyOwner(c.sender) THEN Fail(Unauthorized, w) ELSE PausableDoPause(w, c.sender)

piUnpause(w, c) ==
    IF ~onlyOwner(c.sender) THEN Fail(Unauthorized, w) ELSE PausableDoUnpause(w, c.sender)

\* withdrawFees(): payable(msg.sender).transfer(amount) sends ETH.
piWithdrawFees(w, c) ==
    IF ~onlyOwner(c.sender) THEN Fail(Unauthorized, w) ELSE
    LET amount == w.totalFeesCollected
        w1 == [w EXCEPT !.totalFeesCollected = 0]
    IN  IF w1.eth < amount THEN Fail(EthTransferFailed, w1)
        ELSE Ok([w1 EXCEPT !.eth = @ - amount])

\* updateTransactionFee(newFee): c.amount is newFee.
updateTransactionFee(w, c) ==
    IF ~onlyOwner(c.sender) THEN Fail(Unauthorized, w) ELSE
    IF ~(c.amount <= 1000) THEN Fail(TransferFeeTooHigh, w) ELSE
    Ok(Emit([w EXCEPT !.transactionFee = c.amount], "TransactionFeeUpdated", <<c.amount>>))

\* receive() external payable {}: c.amount is msg.value.
piReceive(w, c) == Ok([w EXCEPT !.eth = @ + c.amount])

PiCall(w, c) ==
    CASE c.fn = "setPriceFeed" -> setPriceFeed(w, c)
      [] c.fn = "adjustSupply" -> adjustSupply(w, c)
      [] c.fn = "mint" -> mint(w, c)
      [] c.fn = "burn" -> burn(w, c)
      [] c.fn = "pause" -> piPause(w, c)
      [] c.fn = "unpause" -> piUnpause(w, c)
      [] c.fn = "transfer" -> piTransfer(w, c)
      [] c.fn = "withdrawFees" -> piWithdrawFees(w, c)
      [] c.fn = "updateTransactionFee" -> updateTransactionFee(w, c)
      [] c.fn = "receive" -> piReceive(w, c)

PiWorld ==
    [balances |-> piBalances, totalSupply |-> piTotalSupply, priceFeed |-> priceFeed,
     transactionFee |-> transactionFee, totalFeesCollected |-> totalFeesCollected,
     paused |-> piPaused, eth |-> piEth, log |-> <<>>]

\* The world after the constructor: _mint(msg.sender, TOTAL_SUPPLY).
PiConstructed ==
    Outcome([balances |-> [h \in PiHolders |-> 0], totalSupply |-> 0, priceFeed |-> ZeroAddr,
             transactionFee |-> 100, totalFeesCollected |-> 0, paused |-> FALSE,
             eth |-> 0, log |-> <<>>],
            ERC20Mint([balances |-> [h \in PiHolders |-> 0], totalSupply |-> 0,
                       priceFeed |-> ZeroAddr, transactionFee |-> 100,
                       totalFeesCollected |-> 0, paused |-> FALSE, eth |-> 0, log |-> <<>>],
                      Deployer, TOTAL_SUPPLY))

PiCommit(w1) ==
    /\ w1.totalSupply <= MaxSupply
    /\ w1.eth <= MaxEth
    /\ piBalances' = w1.balances
    /\ piTotalSupply' = w1.totalSupply
    /\ priceFeed' = w1.priceFeed
    /\ transactionFee' = w1.transactionFee
    /\ totalFeesCollected' = w1.totalFeesCollected
    /\ piPaused' = w1.paused
    /\ piEth' = w1.eth
    /\ UNCHANGED <<contract, dexVars, lpVars, quoteVars, streamVars>>

PiAfter(w, c) == Outcome(w, PiCall(w, c))
PiTransact(c) == PiCommit(PiAfter(PiWorld, c))

TransferFeeChoices == {0, 1000, 1001}
PriceFeeds == {"feed"}

SetPriceFeedCalls == {PiCallRecord("setPriceFeed", s, f, 0) : s \in Users, f \in PriceFeeds}
AdjustSupplyCalls == {PiCallRecord("adjustSupply", s, s, 0) : s \in Users}
MintCalls == {PiCallRecord("mint", s, t, a) : s \in Users, t \in Users, a \in Amounts}
BurnCalls == {PiCallRecord("burn", s, s, a) : s \in Users, a \in Amounts}
PiPauseCalls == {PiCallRecord("pause", s, s, 0) : s \in Users}
PiUnpauseCalls == {PiCallRecord("unpause", s, s, 0) : s \in Users}
PiTransferCalls ==
    {PiCallRecord("transfer", st[1], st[2], a) :
        st \in {x \in Users \X PiHolders : x[1] # x[2]}, a \in Amounts}
PiWithdrawFeesCalls == {PiCallRecord("withdrawFees", s, s, 0) : s \in Users}
UpdateTransactionFeeCalls ==
    {PiCallRecord("updateTransactionFee", s, s, f) : s \in Users, f \in TransferFeeChoices}
PiReceiveCalls == {PiCallRecord("receive", s, s, a) : s \in Users, a \in 1 .. MaxEth}

PiCalls ==
    SetPriceFeedCalls \cup AdjustSupplyCalls \cup MintCalls \cup BurnCalls \cup PiPauseCalls
    \cup PiUnpauseCalls \cup PiTransferCalls \cup PiWithdrawFeesCalls
    \cup UpdateTransactionFeeCalls \cup PiReceiveCalls

SetPriceFeed == contract = "PiCoin" /\ \E c \in SetPriceFeedCalls : PiTransact(c)
AdjustSupply == contract = "PiCoin" /\ \E c \in AdjustSupplyCalls : PiTransact(c)
Mint == contract = "PiCoin" /\ \E c \in MintCalls : PiTransact(c)
Burn == contract = "PiCoin" /\ \E c \in BurnCalls : PiTransact(c)
PiPause == contract = "PiCoin" /\ \E c \in PiPauseCalls : PiTransact(c)
PiUnpause == contract = "PiCoin" /\ \E c \in PiUnpauseCalls : PiTransact(c)
PiTransfer == contract = "PiCoin" /\ \E c \in PiTransferCalls : PiTransact(c)
PiWithdrawFees == contract = "PiCoin" /\ \E c \in PiWithdrawFeesCalls : PiTransact(c)
UpdateTransactionFee == contract = "PiCoin" /\ \E c \in UpdateTransactionFeeCalls : PiTransact(c)
PiReceive == contract = "PiCoin" /\ \E c \in PiReceiveCalls : PiTransact(c)

PiNext ==
    \/ SetPriceFeed
    \/ AdjustSupply
    \/ Mint
    \/ Burn
    \/ PiPause
    \/ PiUnpause
    \/ PiTransfer
    \/ PiWithdrawFees
    \/ UpdateTransactionFee
    \/ PiReceive

\* --------------------------------------------------------- LiquidityPool
LPAddr == "pool"                         \* address(this) in LiquidityPool
LPHolders == Users \cup {LPAddr}
\* The pool's token at the start: two units with the deployer, one with the
\* other user, none in the pool's custody.
LPInitialBalance(h) == IF h = Deployer THEN 2 ELSE IF h \in Users THEN 1 ELSE 0
AmountZero == "Amount must be greater than zero"
InsufficientBalance == "Insufficient balance"
NoRewards == "No rewards to claim"
LPNestedFns == {"deposit", "withdraw", "claimRewards"}
LPTokenBehaviours ==
    {HonestToken}
    \cup {[at |-> 1, kind |-> k, fn |-> "none"] : k \in {"refuse", "false"}}
    \cup {[at |-> 1, kind |-> "hook", fn |-> f] : f \in LPNestedFns}

LPCallRecord(fn, sender, amount, beh) ==
    [fn |-> fn, sender |-> sender, amount |-> amount, beh |-> beh]

RECURSIVE LPCall(_, _)
RECURSIVE LPCallback(_, _, _)
RECURSIVE LPTokenCall(_, _, _, _, _, _)

\* The pool token's callback: one nested call into the pool as the outer
\* msg.sender, inside try/catch.
LPCallback(w, fn, sender) ==
    LET r == LPCall(w, LPCallRecord(fn, sender, 1, HonestToken))
        w1 == Outcome(w, r)
    IN  [w1 EXCEPT !.transfers = w.transfers,
                   !.nested = [fn |-> fn, err |-> r.err, locked |-> (w.status = ENTERED),
                               changed |-> (w1 # w), reserves |-> <<>>]]

LPTokenMove(w, from, to, amount) ==
    IF w.tokenBalance[from] < amount
    THEN Fail(ExceedsBalance, Noted(w, "reverted"))
    ELSE Ok(Noted([w EXCEPT !.tokenBalance[from] = @ - amount,
                            !.tokenBalance[to] = @ + amount], "moved"))

LPTokenCall(w, from, to, amount, beh, sender) ==
    CASE beh.kind = "refuse" -> Fail(Refused, Noted(w, "reverted"))
      [] beh.kind = "false" -> Ok(Noted(w, "false"))
      [] beh.kind = "hook" -> LPTokenMove(LPCallback(w, beh.fn, sender), from, to, amount)
      [] OTHER -> LPTokenMove(w, from, to, amount)

depositBody(w, c) ==
    IF ~(c.amount > 0) THEN Fail(AmountZero, w) ELSE
    LET r1 == LPTokenCall(w, c.sender, LPAddr, c.amount, BehAt(c.beh, 1), c.sender)
    IN  IF r1.err # "" THEN r1 ELSE
        Ok(Emit([r1.w EXCEPT !.balances[c.sender] = @ + c.amount,
                             !.totalSupply = @ + c.amount],
                "Deposited", <<c.sender, c.amount>>))

deposit(w, c) ==
    IF w.paused THEN Fail(Paused, w) ELSE
    LET e == nonReentrantBefore(w)
    IN  IF e.err # "" THEN e ELSE nonReentrantAfter(depositBody(e.w, c))

withdrawBody(w, c) ==
    IF ~(c.amount > 0) THEN Fail(AmountZero, w) ELSE
    IF ~(w.balances[c.sender] >= c.amount) THEN Fail(InsufficientBalance, w) ELSE
    LET w1 == [w EXCEPT !.balances[c.sender] = @ - c.amount]
        total == SafeSub(w1.totalSupply, c.amount)
    IN  IF total < 0 THEN Fail(Underflow, w1) ELSE
    LET r1 == LPTokenCall([w1 EXCEPT !.totalSupply = total], LPAddr, c.sender, c.amount,
                          BehAt(c.beh, 1), c.sender)
    IN  IF r1.err # "" THEN r1 ELSE Ok(Emit(r1.w, "Withdrawn", <<c.sender, c.amount>>))

withdraw(w, c) ==
    IF w.paused THEN Fail(Paused, w) ELSE
    LET e == nonReentrantBefore(w)
    IN  IF e.err # "" THEN e ELSE nonReentrantAfter(withdrawBody(e.w, c))

claimRewardsBody(w, c) ==
    LET rewardAmount == w.balances[c.sender]
    IN  IF ~(rewardAmount > 0) THEN Fail(NoRewards, w) ELSE
    LET r1 == LPTokenCall([w EXCEPT !.balances[c.sender] = 0], LPAddr, c.sender,
                          rewardAmount, BehAt(c.beh, 1), c.sender)
    IN  IF r1.err # "" THEN r1
        ELSE Ok(Emit(r1.w, "RewardsClaimed", <<c.sender, rewardAmount>>))

claimRewards(w, c) ==
    IF w.paused THEN Fail(Paused, w) ELSE
    LET e == nonReentrantBefore(w)
    IN  IF e.err # "" THEN e ELSE nonReentrantAfter(claimRewardsBody(e.w, c))

lpPause(w, c) ==
    IF ~onlyOwner(c.sender) THEN Fail(Unauthorized, w) ELSE PausableDoPause(w, c.sender)

lpUnpause(w, c) ==
    IF ~onlyOwner(c.sender) THEN Fail(Unauthorized, w) ELSE PausableDoUnpause(w, c.sender)

LPCall(w, c) ==
    CASE c.fn = "deposit" -> deposit(w, c)
      [] c.fn = "withdraw" -> withdraw(w, c)
      [] c.fn = "claimRewards" -> claimRewards(w, c)
      [] c.fn = "pause" -> lpPause(w, c)
      [] c.fn = "unpause" -> lpUnpause(w, c)

LPWorld ==
    [totalSupply |-> lpTotalSupply, balances |-> lpBalances, paused |-> lpPaused,
     status |-> lpStatus, tokenBalance |-> lpTokenBalance, log |-> <<>>,
     transfers |-> <<>>, nested |-> NoNested]

\* One transaction to the pool; totalSupply is a uint256 in the code, capped here.
LPCommit(w1) ==
    /\ w1.totalSupply <= 2 * MaxReserve
    /\ lpTotalSupply' = w1.totalSupply
    /\ lpBalances' = w1.balances
    /\ lpPaused' = w1.paused
    /\ lpStatus' = w1.status
    /\ lpTokenBalance' = w1.tokenBalance
    /\ UNCHANGED <<contract, dexVars, piVars, quoteVars, streamVars>>

LPAfter(w, c) == Outcome(w, LPCall(w, c))
LPTransact(c) == LPCommit(LPAfter(LPWorld, c))

DepositCalls ==
    {LPCallRecord("deposit", s, a, b) : s \in Users, a \in Amounts, b \in LPTokenBehaviours}
WithdrawCalls ==
    {LPCallRecord("withdraw", s, a, b) : s \in Users, a \in Amounts, b \in LPTokenBehaviours}
ClaimRewardsCalls ==
    {LPCallRecord("claimRewards", s, 0, b) : s \in Users, b \in LPTokenBehaviours}
LPPauseCalls == {LPCallRecord("pause", s, 0, HonestToken) : s \in Users}
LPUnpauseCalls == {LPCallRecord("unpause", s, 0, HonestToken) : s \in Users}

LPCalls ==
    DepositCalls \cup WithdrawCalls \cup ClaimRewardsCalls \cup LPPauseCalls
    \cup LPUnpauseCalls

Deposit == contract = "LiquidityPool" /\ \E c \in DepositCalls : LPTransact(c)
Withdraw == contract = "LiquidityPool" /\ \E c \in WithdrawCalls : LPTransact(c)
ClaimRewards == contract = "LiquidityPool" /\ \E c \in ClaimRewardsCalls : LPTransact(c)
LPPause == contract = "LiquidityPool" /\ \E c \in LPPauseCalls : LPTransact(c)
LPUnpause == contract = "LiquidityPool" /\ \E c \in LPUnpauseCalls : LPTransact(c)

LPNext ==
    \/ Deposit
    \/ Withdraw
    \/ ClaimRewards
    \/ LPPause
    \/ LPUnpause

\* ------------------------------------------------ binanceAPI.js price streams
\* The backend module keeps one Map, wsClients, from a symbol to the WebSocket
\* of its ticker stream.  Node runs one handler at a time, so each call, each
\* socket event and each timer is one step.  A socket is CONNECTING when
\* constructed, OPEN after its 'open' event, CLOSING once close() was called
\* on it and CLOSED when its 'close' event is emitted.
Symbols == {"BTCUSDT", "ETHUSDT"}
NoSocket == 0
CONNECTING == "CONNECTING"
OPEN == "OPEN"
CLOSING == "CLOSING"
CLOSED == "CLOSED"

StreamWorld == [wsClients |-> wsClients, sockets |-> sockets, timers |-> timers]

\* new WebSocket(url): the next socket, for this symbol, connecting.
NewWebSocket(w, symbol) ==
    [w EXCEPT !.sockets = Append(@, [symbol |-> symbol, readyState |-> CONNECTING])]

\* wsClients.delete(symbol), whatever socket the entry holds.
wsClientsDelete(w, symbol) == [w EXCEPT !.wsClients[symbol] = NoSocket]

\* setTimeout(() => startPriceStream(symbol), 5000)
setTimeoutReconnect(w, symbol) == [w EXCEPT !.timers[symbol] = @ + 1]

startPriceStream(w, symbol) ==
    IF w.wsClients[symbol] # NoSocket THEN w ELSE
    LET w1 == NewWebSocket(w, symbol)
    IN  [w1 EXCEPT !.wsClients[symbol] = Len(w1.sockets)]

\* ws.close(): a socket not yet closed starts closing; its 'close' event
\* comes later.
wsClose(w, ws) ==
    IF w.sockets[ws].readyState \in {CONNECTING, OPEN}
    THEN [w EXCEPT !.sockets[ws].readyState = CLOSING]
    ELSE w

stopPriceStream(w, symbol) ==
    LET ws == w.wsClients[symbol]
    IN  IF ws = NoSocket THEN w ELSE wsClientsDelete(wsClose(w, ws), symbol)

\* ws.on('open'): the handler only logs.
onOpen(w, ws) == [w EXCEPT !.sockets[ws].readyState = OPEN]

\* ws.on('close'): the entry of the symbol is deleted and a reconnect is
\* scheduled, whoever closed the socket.
onClose(w, ws) ==
    LET symbol == w.sockets[ws].symbol
    IN  setTimeoutReconnect(wsClientsDelete([w EXCEPT !.sockets[ws].readyState = CLOSED],
                                            symbol), symbol)

StreamCommit(w1, calls) ==
    /\ Len(w1.sockets) <= MaxSockets
    /\ wsClients' = w1.wsClients
    /\ sockets' = w1.sockets
    /\ timers' = w1.timers
    /\ lastCall' = calls
    /\ UNCHANGED <<contract, dexVars, piVars, lpVars, quoteVars>>

\* BinanceAPI.startPriceStream(symbol) and BinanceAPI.stopPriceStream(symbol),
\* called by the routes.
StartPriceStream ==
    /\ contract = "BinanceAPI"
    /\ \E s \in Symbols :
        StreamCommit(startPriceStream(StreamWorld, s), [lastCall EXCEPT ![s] = "start"])
StopPriceStream ==
    /\ contract = "BinanceAPI"
    /\ \E s \in Symbols :
        StreamCommit(stopPriceStream(StreamWorld, s), [lastCall EXCEPT ![s] = "stop"])

\* The handshake of a connecting socket completes.
SocketOpens ==
    /\ contract = "BinanceAPI"
    /\ \E ws \in 1 .. Len(sockets) :
        /\ sockets[ws].readyState = CONNECTING
        /\ StreamCommit(onOpen(StreamWorld, ws), lastCall)

\* A socket closes: the handshake fails, the server or the network ends the
\* connection, or the closing that close() started completes.
SocketCloses ==
    /\ contract = "BinanceAPI"
    /\ \E ws \in 1 .. Len(sockets) :
        /\ sockets[ws].readyState # CLOSED
        /\ StreamCommit(onClose(StreamWorld, ws), lastCall)

\* A reconnect timer set by a 'close' handler fires.
ReconnectTimer ==
    /\ contract = "BinanceAPI"
    /\ \E s \in Symbols :
        /\ timers[s] > 0
        /\ StreamCommit(startPriceStream([StreamWorld EXCEPT !.timers[s] = @ - 1], s), lastCall)

StreamsAtLoad ==
    /\ wsClients = [s \in Symbols |-> NoSocket]
    /\ sockets = <<>>
    /\ timers = [s \in Symbols |-> 0]
    /\ lastCall = [s \in Symbols |-> "none"]

StreamNext ==
    \/ StartPriceStream
    \/ StopPriceStream
    \/ SocketOpens
    \/ SocketCloses
    \/ ReconnectTimer

\* ------------------------------------------------ getAmountOut on its own
\* getAmountOut is public and pure: a call of it reads no storage.
QuoteLarge == {100, 1000, 3000}
QuoteValues == (0 .. MaxQuote) \cup QuoteLarge
QuoteArgs == [amountIn : QuoteValues, reserveIn : QuoteValues, reserveOut : QuoteValues]
NoQuoteArgs == [amountIn |-> 0, reserveIn |-> 0, reserveOut |-> 0]
NoQuote == [err |-> "not called", out |-> 0]

GetAmountOut ==
    /\ quoteOut = NoQuote
    /\ quoteOut' = getAmountOut(quoteIn.amountIn, quoteIn.reserveIn, quoteIn.reserveOut)
    /\ UNCHANGED <<contract, dexVars, piVars, lpVars, quoteIn, streamVars>>

Init ==
    /\ contract \in {"DEX", "PiCoin", "LiquidityPool"}
    /\ liquidityPools = [p \in Pairs |->
                            [tokenAAmount |-> 0, tokenBAmount |-> 0, totalLiquidity |-> 0]]
    /\ userLiquidity = [p \in Pairs |-> [u \in Users |-> 0]]
    /\ feePercentage = 1
    /\ dexPaused = FALSE
    /\ dexStatus = NOT_ENTERED
    /\ tokenBalance = [t \in Tokens |-> [h \in Holders |-> InitialBalance(t, h)]]
    /\ piBalances = PiConstructed.balances
    /\ piTotalSupply = PiConstructed.totalSupply
    /\ priceFeed = PiConstructed.priceFeed
    /\ transactionFee = PiConstructed.transactionFee
    /\ totalFeesCollected = PiConstructed.totalFeesCollected
    /\ piPaused = PiConstructed.paused
    /\ piEth = PiConstructed.eth
    /\ lpTotalSupply = 0
    /\ lpBalances = [u \in Users |-> 0]
    /\ lpPaused = FALSE
    /\ lpStatus = NOT_ENTERED
    /\ lpTokenBalance = [h \in LPHolders |-> LPInitialBalance(h)]
    /\ quoteIn = NoQuoteArgs
    /\ quoteOut = NoQuote
    /\ StreamsAtLoad

Next == DEXNext \/ PiNext \/ LPNext

Spec == Init /\ [][Next]_vars

\* The behaviours of getAmountOut alone: the arguments are drawn at the start
\* and the call is made once.
QuoteInit ==
    /\ contract = "DEX"
    /\ liquidityPools = [p \in Pairs |->
                            [tokenAAmount |-> 0, tokenBAmount |-> 0, totalLiquidity |-> 0]]
    /\ userLiquidity = [p \in Pairs |-> [u \in Users |-> 0]]
    /\ feePercentage = 1
    /\ dexPaused = FALSE
    /\ dexStatus = NOT_ENTERED
    /\ tokenBalance = [t \in Tokens |-> [h \in Holders |-> InitialBalance(t, h)]]
    /\ piBalances = PiConstructed.balances
    /\ piTotalSupply = PiConstructed.totalSupply
    /\ priceFeed = PiConstructed.priceFeed
    /\ transactionFee = PiConstructed.transactionFee
    /\ totalFeesCollected = PiConstructed.totalFeesCollected
    /\ piPaused = PiConstructed.paused
    /\ piEth = PiConstructed.eth
    /\ lpTotalSupply = 0
    /\ lpBalances = [u \in Users |-> 0]
    /\ lpPaused = FALSE
    /\ lpStatus = NOT_ENTERED
    /\ lpTokenBalance = [h \in LPHolders |-> LPInitialBalance(h)]
    /\ quoteIn \in QuoteArgs
    /\ quoteOut = NoQuote
    /\ StreamsAtLoad

QuoteNext == GetAmountOut

QuoteSpec == QuoteInit /\ [][QuoteNext]_vars

\* The DEX alone and PiCoin alone, each from its constructor.
DEXInit == Init /\ contract = "DEX"
DEXSpec == DEXInit /\ [][DEXNext]_vars
PiInit == Init /\ contract = "PiCoin"
PiSpec == PiInit /\ [][PiNext]_vars

\* The backend module alone, from its load; the contracts stay as constructed.
StreamInit ==
    /\ contract = "BinanceAPI"
    /\ liquidityPools = [p \in Pairs |->
                            [tokenAAmount |-> 0, tokenBAmount |-> 0, totalLiquidity |-> 0]]
    /\ userLiquidity = [p \in Pairs |-> [u \in Users |-> 0]]
    /\ feePercentage = 1
    /\ dexPaused = FALSE
    /\ dexStatus = NOT_ENTERED
    /\ tokenBalance = [t \in Tokens |-> [h \in Holders |-> InitialBalance(t, h)]]
    /\ piBalances = PiConstructed.balances
    /\ piTotalSupply = PiConstructed.totalSupply
    /\ priceFeed = PiConstructed.priceFeed
    /\ transactionFee = PiConstructed.transactionFee
    /\ totalFeesCollected = PiConstructed.totalFeesCollected
    /\ piPaused = PiConstructed.paused
    /\ piEth = PiConstructed.eth
    /\ lpTotalSupply = 0
    /\ lpBalances = [u \in Users |-> 0]
    /\ lpPaused = FALSE
    /\ lpStatus = NOT_ENTERED
    /\ lpTokenBalance = [h \in LPHolders |-> LPInitialBalance(h)]
    /\ quoteIn = NoQuoteArgs
    /\ quoteOut = NoQuote
    /\ StreamsAtLoad
StreamSpec == StreamInit /\ [][StreamNext]_vars

\* ------------------------------------------------------------ properties
\* The properties below are state predicates: in a reachable state they speak
\* of every call of the explored sets, through the result the entry point
\* gives in that state and the storage the transaction leaves.

RECURSIVE SumOver(_, _)
SumOver(f, S) == IF S = {} THEN 0 ELSE LET x == CHOOSE y \in S : TRUE IN f[x] + SumOver(f, S \ {x})

GuardedDEXCalls == AddLiquidityCalls \cup RemoveLiquidityCalls \cup SwapTokensCalls
GuardedLPCalls == DepositCalls \cup WithdrawCalls \cup ClaimRewardsCalls
DEXAdminCalls == WithdrawFeesCalls \cup UpdateFeePercentageCalls \cup PauseCalls \cup UnpauseCalls
PiAdminCalls ==
    SetPriceFeedCalls \cup AdjustSupplyCalls \cup MintCalls \cup BurnCalls \cup PiPauseCalls
    \cup PiUnpauseCalls \cup PiWithdrawFeesCalls \cup UpdateTransactionFeeCalls
LPAdminCalls == LPPauseCalls \cup LPUnpauseCalls

\* C1: in every reachable state, for every pool of the DEX, the shares of all
\* holders sum to the pool's totalLiquidity.
SharesSumToTotalLiquidity ==
    \A p \in Pairs : SumOver(userLiquidity[p], Users) = liquidityPools[p].totalLiquidity

\* A pool in which both users hold shares, the deployer fewer than any single
\* addLiquidity gives: liquidity was added by both and removed by one.
SharesHeldAfterAddAndRemove ==
    /\ userLiquidity[MainPair]["alice"] = 1
    /\ userLiquidity[MainPair]["bob"] > 0

\* C2: in every reachable state, for every pool, tokenAAmount = 0,
\* tokenBAmount = 0 and totalLiquidity = 0 are equivalent.
ReservesAndSharesZeroTogether ==
    \A p \in Pairs :
        /\ (liquidityPools[p].tokenAAmount = 0) <=> (liquidityPools[p].tokenBAmount = 0)
        /\ (liquidityPools[p].tokenBAmount = 0) <=> (liquidityPools[p].totalLiquidity = 0)

SwapOutputFailureRollsBack ==
    contract = "DEX" =>
        \A c \in SwapTokensCalls :
            LET r == DEXCall(DEXWorld, c)
                t == r.w.transfers
            IN  (Len(t) = 2 /\ t[1] = "moved" /\ t[2] # "moved")
                    => (r.err # "" /\ Outcome(DEXWorld, r) = DEXWorld)

\* The part of C4 that the code keeps: when the push reverts, the swap fails
\* and everything is as before the call.
SwapOutputRevertRollsBack ==
    contract = "DEX" =>
        \A c \in SwapTokensCalls :
            LET r == DEXCall(DEXWorld, c)
                t == r.w.transfers
            IN  (Len(t) = 2 /\ t[1] = "moved" /\ t[2] = "reverted")
                    => (r.err # "" /\ Outcome(DEXWorld, r) = DEXWorld)

SwapOutputReverts ==
    /\ contract = "DEX"
    /\ \E c \in SwapTokensCalls :
          LET t == DEXCall(DEXWorld, c).w.transfers
          IN  Len(t) = 2 /\ t[1] = "moved" /\ t[2] = "reverted"

\* C5: a call to swapTokens, addLiquidity or removeLiquidity made from a
\* token's transfer callback while the lock is held fails with Reentrant at
\* once and changes nothing.
NestedGuardedCallFailsReentrant ==
    /\ contract = "DEX" =>
          \A c \in {d \in DEXCalls : d.beh.kind = "hook"} :
              LET n == DEXCall(DEXWorld, c).w.nested
              IN  (n.locked /\ n.fn \in {"swapTokens", "addLiquidity", "removeLiquidity"})
                      => (n.err = Reentrant /\ ~n.changed)
    /\ contract = "LiquidityPool" =>
          \A c \in {d \in LPCalls : d.beh.kind = "hook"} :
              LET n == LPCall(LPWorld, c).w.nested
              IN  (n.locked /\ n.fn \in LPNestedFns) => (n.err = Reentrant /\ ~n.changed)

\* A successful swap during whose pull the token called swapTokens again, on a
\* pool and with balances that let the same swap succeed at top level.
NestedSwapRejected ==
    /\ contract = "DEX"
    /\ \E c \in SwapTokensCalls :
          LET r == DEXCall(DEXWorld, c)
          IN  /\ r.err = ""
              /\ r.w.nested.fn = "swapTokens"
              /\ r.w.nested.locked
              /\ r.w.nested.err = Reentrant

\* C6: a call to an entry point that transfers tokens, made from a transfer
\* callback while the lock is held, does not run: it fails.
TransferringEntryPointsRunUnderLock ==
    /\ contract = "DEX" =>
          \A c \in DEXCalls :
              LET n == DEXCall(DEXWorld, c).w.nested
              IN  (n.locked /\ n.fn \in NestedFns) => n.err # ""
    /\ contract = "LiquidityPool" =>
          \A c \in LPCalls :
              LET n == LPCall(LPWorld, c).w.nested
              IN  (n.locked /\ n.fn \in LPNestedFns) => n.err # ""

\* C7: between transactions the lock is free, whatever the last call did: no
\* top-level call is rejected as Reentrant, and every call, failed or not,
\* leaves the lock free.
LockFreeBetweenCalls ==
    /\ dexStatus = NOT_ENTERED
    /\ lpStatus = NOT_ENTERED
    /\ contract = "DEX" =>
          \A c \in DEXCalls :
              LET r == DEXCall(DEXWorld, c)
              IN  r.err # Reentrant /\ Outcome(DEXWorld, r).status = NOT_ENTERED
    /\ contract = "LiquidityPool" =>
          \A c \in LPCalls :
              LET r == LPCall(LPWorld, c)
              IN  r.err # Reentrant /\ Outcome(LPWorld, r).status = NOT_ENTERED

\* After a successful addLiquidity, a guarded call that fails at its second
\* transfer, with the lock held at the point of failure.
FailsHoldingTheLock ==
    /\ contract = "DEX"
    /\ liquidityPools[MainPair].totalLiquidity > 0
    /\ \E c \in GuardedDEXCalls :
          LET r == DEXCall(DEXWorld, c)
          IN  /\ r.err \in {Refused, ExceedsBalance}
              /\ Len(r.w.transfers) = 2
              /\ r.w.status = ENTERED

\* C8: while a contract is paused, every swapTokens, addLiquidity,
\* removeLiquidity, deposit, withdraw, claimRewards and PiCoin transfer fails
\* with Paused and changes nothing; and a call changes the paused flag only if
\* it is a successful pause or unpause by the owner.
PausedBlocksAndOnlyOwnerToggles ==
    /\ contract = "DEX" =>
          /\ dexPaused =>
                \A c \in GuardedDEXCalls :
                    LET r == DEXCall(DEXWorld, c)
                    IN  r.err = Paused /\ Outcome(DEXWorld, r) = DEXWorld
          /\ \A c \in DEXCalls :
                LET r == DEXCall(DEXWorld, c)
                IN  Outcome(DEXWorld, r).paused # dexPaused =>
                        /\ c.fn \in {"pause", "unpause"}
                        /\ c.sender = owner
                        /\ r.err = ""
    /\ contract = "PiCoin" =>
          /\ piPaused =>
                \A c \in PiTransferCalls :
                    LET r == PiCall(PiWorld, c)
                    IN  r.err = Paused /\ Outcome(PiWorld, r) = PiWorld
          /\ \A c \in PiCalls :
                LET r == PiCall(PiWorld, c)
                IN  Outcome(PiWorld, r).paused # piPaused =>
                        /\ c.fn \in {"pause", "unpause"}
                        /\ c.sender = owner
                        /\ r.err = ""
    /\ contract = "LiquidityPool" =>
          /\ lpPaused =>
                \A c \in GuardedLPCalls :
                    LET r == LPCall(LPWorld, c)
                    IN  r.err = Paused /\ Outcome(LPWorld, r) = LPWorld
          /\ \A c \in LPCalls :
                LET r == LPCall(LPWorld, c)
                IN  Outcome(LPWorld, r).paused # lpPaused =>
                        /\ c.fn \in {"pause", "unpause"}
                        /\ c.sender = owner
                        /\ r.err = ""

\* The DEX paused, with a pool and balances on which a swap would succeed if
\* the DEX were active.
PausedWithSwapReady ==
    /\ contract = "DEX"
    /\ dexPaused
    /\ \E c \in SwapTokensCalls :
          /\ DEXCall([DEXWorld EXCEPT !.paused = FALSE], c).err = ""
          /\ DEXCall(DEXWorld, c).err = Paused

\* C9: an administrative call by the owner (withdrawFees, updateFeePercentage,
\* updateTransactionFee, mint, burn, setPriceFeed) made while the contract is
\* paused has the outcome and the effect the same call has on the same storage
\* when the contract is active.  pause and unpause are left aside: what they
\* do depends on the flag by construction; so are tokens that call back, whose
\* nested call may itself be one the flag gates.
SameButForFlag(a, b) ==
    /\ a.err = b.err
    /\ (a.err = "" => [a.w EXCEPT !.paused = FALSE] = [b.w EXCEPT !.paused = FALSE])

OwnerAdminIndependentOfPause ==
    /\ (contract = "DEX" /\ dexPaused) =>
          \A c \in {d \in WithdrawFeesCalls \cup UpdateFeePercentageCalls :
                        d.sender = owner /\ d.beh.kind # "hook"} :
              SameButForFlag(DEXCall([DEXWorld EXCEPT !.paused = FALSE], c),
                             DEXCall(DEXWorld, c))
    /\ (contract = "PiCoin" /\ piPaused) =>
          \A c \in {d \in PiWithdrawFeesCalls \cup UpdateTransactionFeeCalls \cup MintCalls
                              \cup BurnCalls \cup SetPriceFeedCalls : d.sender = owner} :
              SameButForFlag(PiCall([PiWorld EXCEPT !.paused = FALSE], c),
                             PiCall(PiWorld, c))

\* The part of C9 that the code keeps: the owner's withdrawFees, fee updates
\* and setPriceFeed do not look at the flag.
OwnerFeeAdminIndependentOfPause ==
    /\ (contract = "DEX" /\ dexPaused) =>
          \A c \in {d \in WithdrawFeesCalls \cup UpdateFeePercentageCalls :
                        d.sender = owner /\ d.beh.kind # "hook"} :
              SameButForFlag(DEXCall([DEXWorld EXCEPT !.paused = FALSE], c),
                             DEXCall(DEXWorld, c))
    /\ (contract = "PiCoin" /\ piPaused) =>
          \A c \in {d \in PiWithdrawFeesCalls \cup UpdateTransactionFeeCalls
                              \cup SetPriceFeedCalls : d.sender = owner} :
              SameButForFlag(PiCall([PiWorld EXCEPT !.paused = FALSE], c),
                             PiCall(PiWorld, c))

\* C10: a call to an owner-only entry point by a caller who is not the owner
\* fails with Unauthorized and changes nothing.
NonOwnerAdminCallFails ==
    /\ contract = "DEX" =>
          \A c \in {d \in DEXAdminCalls : d.sender # owner} :
              LET r == DEXCall(DEXWorld, c)
              IN  r.err = Unauthorized /\ Outcome(DEXWorld, r) = DEXWorld
    /\ contract = "PiCoin" =>
          \A c \in {d \in PiAdminCalls : d.sender # owner} :
              LET r == PiCall(PiWorld, c)
              IN  r.err = Unauthorized /\ Outcome(PiWorld, r) = PiWorld
    /\ contract = "LiquidityPool" =>
          \A c \in {d \in LPAdminCalls : d.sender # owner} :
              LET r == LPCall(LPWorld, c)
              IN  r.err = Unauthorized /\ Outcome(LPWorld, r) = LPWorld

\* The DEX holding tokens that the owner's withdrawFees would take, and the
\* same call by the other user refused.
NonOwnerRefusedWhereOwnerSucceeds ==
    /\ contract = "DEX"
    /\ \E c \in WithdrawFeesCalls :
          /\ c.sender # owner
          /\ DEXCall(DEXWorld, c).err = Unauthorized
          /\ DEXCall(DEXWorld, [c EXCEPT !.sender = owner]).err = ""

\* C11: in every reachable state feePercentage is at most 100 and
\* transactionFee at most 1000; an update with a larger value fails and leaves
\* the storage, the stored fee included, as it was.
FeesWithinBounds ==
    /\ feePercentage <= 100
    /\ transactionFee <= 1000
    /\ contract = "DEX" =>
          \A c \in {d \in UpdateFeePercentageCalls : d.amountA > 100} :
              LET r == DEXCall(DEXWorld, c)
              IN  r.err # "" /\ Outcome(DEXWorld, r) = DEXWorld
    /\ contract = "PiCoin" =>
          \A c \in {d \in UpdateTransactionFeeCalls : d.amount > 1000} :
              LET r == PiCall(PiWorld, c)
              IN  r.err # "" /\ Outcome(PiWorld, r) = PiWorld

\* The swap fee raised to its bound by the owner, whose next update above the
\* bound is refused for its size.
FeeAtBoundAndLargerRefused ==
    /\ contract = "DEX"
    /\ feePercentage = 100
    /\ \E c \in UpdateFeePercentageCalls :
          c.sender = owner /\ c.amountA > 100 /\ DEXCall(DEXWorld, c).err = FeeTooHigh

\* What the constant-product formula gives, and whether every product and sum
\* in it fits an unsigned integer.
QuoteFloor(a, ri, ro) == (a * 997 * ro) \div (ri * 1000 + a * 997)
QuoteFits(a, ri, ro) ==
    /\ a <= UINT_MAX \div 997
    /\ a * 997 <= UINT_MAX \div ro
    /\ ri <= UINT_MAX \div 1000
    /\ ri * 1000 <= UINT_MAX - a * 997
QuoteCalled == quoteOut # NoQuote
QuotePositiveArgs == quoteIn.amountIn > 0 /\ quoteIn.reserveIn > 0 /\ quoteIn.reserveOut > 0

\* C12: for all positive amountIn, reserveIn and reserveOut, getAmountOut
\* returns floor(amountIn*997*reserveOut / (reserveIn*1000 + amountIn*997)).
QuoteIsExactFloor ==
    (QuoteCalled /\ QuotePositiveArgs) =>
        /\ quoteOut.err = ""
        /\ quoteOut.out = QuoteFloor(quoteIn.amountIn, quoteIn.reserveIn, quoteIn.reserveOut)

\* C12, amended: for positive arguments getAmountOut returns that floor when
\* amountIn*997, amountIn*997*reserveOut, reserveIn*1000 and
\* reserveIn*1000 + amountIn*997 all fit an unsigned integer, and reverts with
\* SafeMath's overflow otherwise; getAmountOut(100, 1000, 1000) is 90.
QuoteIsExactFloorWhenItFits ==
    (QuoteCalled /\ QuotePositiveArgs) =>
        /\ IF QuoteFits(quoteIn.amountIn, quoteIn.reserveIn, quoteIn.reserveOut)
           THEN /\ quoteOut.err = ""
                /\ quoteOut.out =
                       QuoteFloor(quoteIn.amountIn, quoteIn.reserveIn, quoteIn.reserveOut)
           ELSE quoteOut.err \in {MulOverflow, AddOverflow}
        /\ quoteIn = [amountIn |-> 100, reserveIn |-> 1000, reserveOut |-> 1000]
              => quoteOut = [err |-> "", out |-> 90]

\* getAmountOut(100, 1000, 1000) has returned.
QuoteOfHundredReturned ==
    /\ QuoteCalled
    /\ quoteIn = [amountIn |-> 100, reserveIn |-> 1000, reserveOut |-> 1000]
    /\ quoteOut.err = ""

\* C13: for fixed positive reserves, a result of getAmountOut is strictly
\* less than reserveOut and no greater than the result for any larger amountIn.
QuoteMonotoneAndBelowReserve ==
    (QuoteCalled /\ quoteOut.err = "") =>
        /\ quoteOut.out < quoteIn.reserveOut
        /\ \A a2 \in QuoteValues :
              LET q2 == getAmountOut(a2, quoteIn.reserveIn, quoteIn.reserveOut)
              IN  (a2 >= quoteIn.amountIn /\ q2.err = "") => quoteOut.out <= q2.out

\* A positive result for which a larger amountIn gives a strictly larger one.
QuoteGrowsWithAmountIn ==
    /\ QuoteCalled
    /\ quoteOut.err = ""
    /\ quoteOut.out > 0
    /\ \E a2 \in QuoteValues :
          LET q2 == getAmountOut(a2, quoteIn.reserveIn, quoteIn.reserveOut)
          IN  a2 > quoteIn.amountIn /\ q2.err = "" /\ q2.out > quoteOut.out

\* The calls of swapTokens that succeed on the pool as it stands.
SwapSucceeds(c) == DEXCall(DEXWorld, c).err = ""
PoolBefore(c) == liquidityPools[<<c.tokenA, c.tokenB>>]
PoolAfter(r, c) == r.w.liquidityPools[<<c.tokenA, c.tokenB>>]

\* C14: a successful swap pays out getAmountOut of the full amountIn on the
\* reserves before the swap, adds amountIn less floor(amountIn*feePercentage/100)
\* to the reserve of the token paid in, takes the amount paid out from the other
\* reserve, and leaves the total shares and every holder's shares as they were.
SuccessfulSwapUpdatesReserves ==
    contract = "DEX" =>
        \A c \in SwapTokensCalls :
            LET r == DEXCall(DEXWorld, c)
                q == getAmountOut(c.amountA, PoolBefore(c).tokenAAmount, PoolBefore(c).tokenBAmount)
            IN  r.err = "" =>
                  /\ q.err = ""
                  /\ r.w.log # <<>>
                  /\ r.w.log[Len(r.w.log)] =
                        Event("TokensSwapped", <<c.tokenA, c.tokenB, c.amountA, q.out>>)
                  /\ PoolAfter(r, c).tokenAAmount =
                        PoolBefore(c).tokenAAmount
                          + (c.amountA - ((c.amountA * feePercentage) \div 100))
                  /\ PoolAfter(r, c).tokenBAmount = PoolBefore(c).tokenBAmount - q.out
                  /\ PoolAfter(r, c).totalLiquidity = PoolBefore(c).totalLiquidity
                  /\ r.w.userLiquidity = userLiquidity
                  /\ \A p \in Pairs \ {<<c.tokenA, c.tokenB>>} :
                        r.w.liquidityPools[p] = liquidityPools[p]

\* A swap that succeeds while the fee skims something from the amount paid in.
SwapSucceedsWithFeeSkimmed ==
    /\ contract = "DEX"
    /\ \E c \in SwapTokensCalls :
          /\ SwapSucceeds(c)
          /\ (c.amountA * feePercentage) \div 100 > 0
          /\ getAmountOut(c.amountA, PoolBefore(c).tokenAAmount, PoolBefore(c).tokenBAmount).out > 0

\* What a swap adds to the DEX's custody of the token paid in, and to the
\* recorded reserve of that token in the pool swapped through.
HonestSwapCalls == {c \in SwapTokensCalls : c.beh = HonestToken}
CustodyGain(r, c) == r.w.tokenBalance[c.tokenA][DEXAddr] - tokenBalance[c.tokenA][DEXAddr]
ReserveGain(r, c) == PoolAfter(r, c).tokenAAmount - PoolBefore(c).tokenAAmount

\* C15 as stated: the swap fee stays inside the recorded reserves, so every
\* unit of the token paid in that a successful swap pulls into custody is
\* counted in the recorded reserve of the pool swapped through.
SwapFeeCountedInReserve ==
    contract = "DEX" =>
        \A c \in HonestSwapCalls :
            LET r == DEXCall(DEXWorld, c)
            IN  r.err = "" => ReserveGain(r, c) = CustodyGain(r, c)

\* C15 amended: a successful swap pulls the full amountIn into custody and
\* counts amountIn less the skim fee in the recorded reserve; the fee is held
\* in custody outside every recorded reserve.
SwapFeeHeldOutsideReserve ==
    contract = "DEX" =>
        \A c \in HonestSwapCalls :
            LET r == DEXCall(DEXWorld, c)
                fee == (c.amountA * feePercentage) \div 100
            IN  r.err = "" =>
                  /\ CustodyGain(r, c) = c.amountA
                  /\ ReserveGain(r, c) = c.amountA - fee
                  /\ CustodyGain(r, c) - ReserveGain(r, c) = fee
                  /\ \A p \in Pairs \ {<<c.tokenA, c.tokenB>>} :
                        r.w.liquidityPools[p] = liquidityPools[p]

\* A successful swap that pulls more into custody than it counts in the reserve.
SwapPullsMoreThanItRecords ==
    /\ contract = "DEX"
    /\ \E c \in HonestSwapCalls :
          LET r == DEXCall(DEXWorld, c)
          IN  r.err = "" /\ CustodyGain(r, c) > ReserveGain(r, c)

\* The swaps on a token whose transfer runs a callback, and the reserves that
\* callback found recorded.
SwapCallsWithCallback == {c \in SwapTokensCalls : c.beh.kind = "hook"}
CallbackRan(r) == r.w.nested.fn # "none"

\* C16: within a swap both transfers come before any write to the reserves:
\* when the callback of the pull or of the push runs, the recorded reserves of
\* every pool are the ones from before the swap.
SwapTransfersBeforeReserveWrites ==
    contract = "DEX" =>
        \A c \in SwapCallsWithCallback :
            LET r == DEXCall(DEXWorld, c)
            IN  CallbackRan(r) => r.w.nested.reserves = liquidityPools

\* A swap that succeeds and changes the reserves, once with the callback run by
\* the pull and once with the callback run by the push.
SwapCallbacksSawOldReserves ==
    /\ contract = "DEX"
    /\ \A i \in 1 .. 2 :
          \E c \in SwapCallsWithCallback :
              LET r == DEXCall(DEXWorld, c)
              IN  /\ c.beh.at = i
                  /\ r.err = ""
                  /\ CallbackRan(r)
                  /\ r.w.liquidityPools # liquidityPools
                  /\ r.w.nested.reserves = liquidityPools

\* Any call of swapTokens: every caller, pair, amount and token behaviour.
AnySwapCalls ==
    {DEXCallRecord("swapTokens", s, p[1], p[2], a, 0, beh) :
        s \in Users, p \in Pairs, a \in Amounts, beh \in TokenBehaviours}
\* A call that fails for the given reason (or for the pause, which is looked at
\* first), makes no transfer and leaves the storage and the balances alone.
RejectedAs(c, reason) ==
    LET r == DEXCall(DEXWorld, c)
    IN  /\ r.err = (IF dexPaused THEN Paused ELSE reason)
        /\ r.w.transfers = <<>>
        /\ Outcome(DEXWorld, r) = DEXWorld
Quoted(c) == getAmountOut(c.amountA, PoolBefore(c).tokenAAmount, PoolBefore(c).tokenBAmount)

\* C17: a swap of amountIn = 0 fails, with "Invalid amount" unless the pause
\* refuses it first, whatever the pair, the reserves, the caller and the token,
\* and changes nothing.
ZeroAmountSwapFails ==
    contract = "DEX" =>
        \A c \in AnySwapCalls : c.amountA = 0 => RejectedAs(c, InvalidAmount)

\* A swap of nothing refused for its amount on a pool that holds both tokens.
ZeroAmountRefusedOnFundedPool ==
    /\ contract = "DEX"
    /\ \E c \in AnySwapCalls :
          /\ c.amountA = 0
          /\ poolExists(PoolBefore(c))
          /\ DEXCall(DEXWorld, c).err = InvalidAmount

\* C18: a swap of a positive amount on a pair whose pool has a zero reserve
\* fails with "Liquidity pool does not exist" (unless the pause refuses it
\* first), makes no transfer and changes nothing.
SwapOnEmptyPoolFails ==
    contract = "DEX" =>
        \A c \in AnySwapCalls :
            (c.amountA > 0 /\ (PoolBefore(c).tokenAAmount = 0 \/ PoolBefore(c).tokenBAmount = 0))
                => RejectedAs(c, PoolNotFound)

\* A swap refused on a pair that never received a deposit while the mirrored
\* pair holds both tokens.
SwapRefusedOnUnfundedPair ==
    /\ contract = "DEX"
    /\ \E c \in AnySwapCalls :
          /\ c.amountA > 0
          /\ PoolBefore(c) = [tokenAAmount |-> 0, tokenBAmount |-> 0, totalLiquidity |-> 0]
          /\ poolExists(liquidityPools[<<c.tokenB, c.tokenA>>])
          /\ DEXCall(DEXWorld, c).err = PoolNotFound

\* C19: a swap whose quoted amountOut is zero fails with "Insufficient output
\* amount" (unless the pause refuses it first): nothing is pulled from the
\* caller, and the reserves and everything else stay as they were.
SwapQuotedZeroFails ==
    contract = "DEX" =>
        \A p \in Pairs, a \in Amounts \ {0} :
            LET q == getAmountOut(a, liquidityPools[p].tokenAAmount, liquidityPools[p].tokenBAmount)
            IN  (poolExists(liquidityPools[p]) /\ q.err = "" /\ q.out = 0) =>
                    \A c \in AnySwapCalls :
                        (<<c.tokenA, c.tokenB>> = p /\ c.amountA = a)
                            => RejectedAs(c, InsufficientOutput)

\* A swap too small for the reserves, refused with the caller able to pay it.
SmallSwapRefusedUncharged ==
    /\ contract = "DEX"
    /\ \E c \in AnySwapCalls :
          /\ c.amountA > 0
          /\ poolExists(PoolBefore(c))
          /\ Quoted(c).out = 0
          /\ tokenBalance[c.tokenA][c.sender] >= c.amountA
          /\ DEXCall(DEXWorld, c).err = InsufficientOutput

\* The deposits looked at: those the holders make, and every amount on either
\* pair with tokens that behave.
AnyAddLiquidityCalls ==
    AddLiquidityCalls
    \cup {DEXCallRecord("addLiquidity", s, p[1], p[2], a, b, HonestToken) :
            s \in Users, p \in Pairs, a \in Amounts, b \in Amounts}

\* C20: addLiquidity fails unless both amounts are positive; a successful one
\* adds amountA and amountB to the pool's reserves and amountA + amountB to the
\* pool's total shares and to the caller's shares, and leaves the other
\* holders' shares and the other pool alone.
DepositCreditsBothAmounts ==
    contract = "DEX" =>
        \A c \in AnyAddLiquidityCalls :
            LET r == DEXCall(DEXWorld, c)
                p == <<c.tokenA, c.tokenB>>
            IN  /\ ~(c.amountA > 0 /\ c.amountB > 0) => RejectedAs(c, InvalidAmounts)
                /\ r.err = "" =>
                      /\ c.amountA > 0 /\ c.amountB > 0
                      /\ r.w.liquidityPools[p] =
                            [tokenAAmount |-> liquidityPools[p].tokenAAmount + c.amountA,
                             tokenBAmount |-> liquidityPools[p].tokenBAmount + c.amountB,
                             totalLiquidity |-> liquidityPools[p].totalLiquidity
                                                  + c.amountA + c.amountB]
                      /\ r.w.userLiquidity[p][c.sender] =
                            userLiquidity[p][c.sender] + c.amountA + c.amountB
                      /\ \A h \in Users \ {c.sender} :
                            r.w.userLiquidity[p][h] = userLiquidity[p][h]
                      /\ \A o \in Pairs \ {p} :
                            /\ r.w.liquidityPools[o] = liquidityPools[o]
                            /\ r.w.userLiquidity[o] = userLiquidity[o]

\* An equal deposit into an empty pool that issues twice the amount in shares,
\* and a deposit by one holder into a pool another holder has shares of.
DepositIntoEmptyAndIntoSharedPool ==
    /\ contract = "DEX"
    /\ \E c \in AnyAddLiquidityCalls :
          LET r == DEXCall(DEXWorld, c)
              p == <<c.tokenA, c.tokenB>>
          IN  /\ r.err = ""
              /\ c.amountA = c.amountB
              /\ liquidityPools[<<c.tokenB, c.tokenA>>].totalLiquidity > 0
              /\ liquidityPools[p] = [tokenAAmount |-> 0, tokenBAmount |-> 0, totalLiquidity |-> 0]
              /\ r.w.liquidityPools[p].totalLiquidity = 2 * c.amountA
              /\ r.w.userLiquidity[p][c.sender] = 2 * c.amountA
    /\ \E c \in AnyAddLiquidityCalls :
          /\ DEXCall(DEXWorld, c).err = ""
          /\ \E h \in Users \ {c.sender} : userLiquidity[<<c.tokenA, c.tokenB>>][h] > 0

\* The withdrawals looked at: those the holders make, and every amount on
\* either pair with tokens that behave.
AnyRemoveLiquidityCalls ==
    RemoveLiquidityCalls
    \cup {DEXCallRecord("removeLiquidity", s, p[1], p[2], a, b, HonestToken) :
            s \in Users, p \in Pairs, a \in Amounts, b \in Amounts}

\* C21: removeLiquidity of more than the pool's reserve of either token fails,
\* with "Insufficient liquidity" when both amounts are positive and the DEX is
\* not paused, and changes nothing; no recorded reserve is ever negative.
WithdrawBeyondReservesFails ==
    contract = "DEX" =>
        /\ \A p \in Pairs :
              liquidityPools[p].tokenAAmount >= 0 /\ liquidityPools[p].tokenBAmount >= 0
        /\ \A c \in AnyRemoveLiquidityCalls :
              (c.amountA > PoolBefore(c).tokenAAmount \/ c.amountB > PoolBefore(c).tokenBAmount)
                  => LET r == DEXCall(DEXWorld, c)
                     IN  /\ r.err # ""
                         /\ r.w.transfers = <<>>
                         /\ Outcome(DEXWorld, r) = DEXWorld
                         /\ (~dexPaused /\ c.amountA > 0 /\ c.amountB > 0)
                               => r.err = InsufficientLiquidity

\* A holder of enough shares refused a withdrawal because one reserve is short.
WithdrawRefusedForReserveByShareholder ==
    /\ contract = "DEX"
    /\ \E c \in AnyRemoveLiquidityCalls :
          /\ c.amountA > PoolBefore(c).tokenAAmount
          /\ c.amountB <= PoolBefore(c).tokenBAmount
          /\ PoolBefore(c).tokenAAmount > 0
          /\ userLiquidity[<<c.tokenA, c.tokenB>>][c.sender] >= c.amountA + c.amountB
          /\ DEXCall(DEXWorld, c).err = InsufficientLiquidity

\* C22: removeLiquidity by a caller whose shares in the pool are less than
\* amountA + amountB fails and changes nothing, even when the reserves cover
\* both amounts (then by the checked subtraction of the shares): a caller
\* with no shares withdraws nothing.
WithdrawBeyondSharesFails ==
    contract = "DEX" =>
        \A c \in AnyRemoveLiquidityCalls :
            (c.amountA > 0 /\ c.amountB > 0
             /\ userLiquidity[<<c.tokenA, c.tokenB>>][c.sender] < c.amountA + c.amountB)
                => LET r == DEXCall(DEXWorld, c)
                   IN  /\ r.err # ""
                       /\ r.w.transfers = <<>>
                       /\ Outcome(DEXWorld, r) = DEXWorld
                       /\ (~dexPaused /\ reservesCover(PoolBefore(c), c.amountA, c.amountB))
                             => r.err = Underflow

\* A caller with no shares refused a withdrawal the reserves, funded by the
\* other holder, would cover.
WithdrawRefusedForSharesOnFundedPool ==
    /\ contract = "DEX"
    /\ \E c \in AnyRemoveLiquidityCalls :
          /\ c.amountA > 0 /\ c.amountB > 0
          /\ userLiquidity[<<c.tokenA, c.tokenB>>][c.sender] = 0
          /\ reservesCover(PoolBefore(c), c.amountA, c.amountB)
          /\ DEXCall(DEXWorld, c).err = Underflow

\* The withdrawal of what call c deposits, by the same holder.
WithdrawalOf(c) == [c EXCEPT !.fn = "removeLiquidity"]
HonestDeposits ==
    {c \in AnyAddLiquidityCalls : c.beh = HonestToken /\ c.amountA > 0 /\ c.amountB > 0}

\* C23: a deposit of (a, b) with a, b > 0 followed at once by the same
\* holder's withdrawal of (a, b) succeeds and leaves the reserves, the total
\* shares and the holder's shares (and everybody's balances) as they were
\* before the deposit.
DepositThenWithdrawRestores ==
    contract = "DEX" =>
        \A c \in HonestDeposits :
            LET r1 == DEXCall(DEXWorld, c)
            IN  r1.err = "" =>
                  LET r2 == DEXCall(r1.w, WithdrawalOf(c))
                  IN  /\ r2.err = ""
                      /\ r2.w.liquidityPools = liquidityPools
                      /\ r2.w.userLiquidity = userLiquidity
                      /\ r2.w.tokenBalance = tokenBalance

\* A deposit and its withdrawal on a pool that another holder has shares of and
\* that swaps have moved away from the amounts deposited.
RoundTripOnSharedSwappedPool ==
    /\ contract = "DEX"
    /\ \E c \in HonestDeposits :
          LET r1 == DEXCall(DEXWorld, c)
              p == <<c.tokenA, c.tokenB>>
          IN  /\ r1.err = ""
              /\ DEXCall(r1.w, WithdrawalOf(c)).err = ""
              /\ r1.w.liquidityPools # liquidityPools
              /\ \E h \in Users \ {c.sender} : userLiquidity[p][h] > 0
              /\ liquidityPools[p].tokenAAmount + liquidityPools[p].tokenBAmount
                    # liquidityPools[p].totalLiquidity

\* A pool record as it reads when its pair is named the other way round.
Mirrored(pool) ==
    [tokenAAmount |-> pool.tokenBAmount, tokenBAmount |-> pool.tokenAAmount,
     totalLiquidity |-> pool.totalLiquidity]

\* C24: a pool is keyed by the unordered pair of its tokens: the pair named
\* (X, Y) and named (Y, X) is one pool, with the same reserves (each under its
\* own token), the same total shares and the same holders' shares.
PairNamedEitherWayIsOnePool ==
    contract = "DEX" =>
        /\ liquidityPools[MirrorPair] = Mirrored(liquidityPools[MainPair])
        /\ userLiquidity[MirrorPair] = userLiquidity[MainPair]

\* A third token Z, three of it with the deployer, and the pair (X, Z), which
\* shares X with the pairs above.  The mappings of the code hold zero under
\* every key; WithSidePair writes out the zero entries of (X, Z) and the
\* balances of Z, and SideFunded is the world after the deployer's deposit of
\* (1, 2) to (X, Z), where that deposit succeeds.
SidePair == <<"X", "Z">>
AllPairs == Pairs \cup {SidePair}
WithSidePair(w) ==
    [w EXCEPT
       !.liquidityPools = @ @@ (SidePair :> [tokenAAmount |-> 0, tokenBAmount |-> 0,
                                             totalLiquidity |-> 0]),
       !.userLiquidity = @ @@ (SidePair :> [u \in Users |-> 0]),
       !.tokenBalance = @ @@ ("Z" :> [h \in Holders |-> IF h = Deployer THEN 3 ELSE 0])]
SideFunded ==
    DEXAfter(WithSidePair(DEXWorld),
             DEXCallRecord("addLiquidity", Deployer, "X", "Z", 1, 2, HonestToken))
\* Deposits, withdrawals and swaps of (1, 1) and of (MaxAmount, 1) on each of
\* the three pairs, and the calls on tokens that call back.
PairCalls ==
    {c \in GuardedDEXCalls : c.beh.kind = "hook"}
    \cup {DEXCallRecord(fn, s, p[1], p[2], a, 1, HonestToken) :
            fn \in {"addLiquidity", "removeLiquidity", "swapTokens"}, s \in Users,
            p \in AllPairs, a \in {1, MaxAmount}}
OtherPairsKept(w, c) ==
    LET r == DEXCall(w, c)
    IN  r.err = "" =>
          \A p \in AllPairs \ {<<c.tokenA, c.tokenB>>} :
              /\ r.w.liquidityPools[p] = w.liquidityPools[p]
              /\ r.w.userLiquidity[p] = w.userLiquidity[p]

\* C25: a swap, a deposit or a withdrawal on one pair leaves the reserves, the
\* total shares and every holder's shares of every other pair as they were,
\* pairs that share a token with it included.  (Where the deposit to (X, Z)
\* cannot be made, SideFunded is the world with (X, Z) empty.)
OtherPairsUnchanged ==
    contract = "DEX" =>
        \A c \in PairCalls : OtherPairsKept(SideFunded, c)

\* Three funded pairs: a swap on (X, Y) and a swap on (X, Z) each succeed and
\* change their own pool, and so do a deposit and a withdrawal on (X, Z).
SwapsOnPairsSharingAToken ==
    /\ contract = "DEX"
    /\ \A p \in AllPairs : poolExists(SideFunded.liquidityPools[p])
    /\ \A p \in {MainPair, SidePair} :
          \E c \in PairCalls :
              LET r == DEXCall(SideFunded, c)
              IN  /\ c.fn = "swapTokens" /\ <<c.tokenA, c.tokenB>> = p
                  /\ r.err = ""
                  /\ r.w.liquidityPools[p] # SideFunded.liquidityPools[p]
    /\ \A fn \in {"addLiquidity", "removeLiquidity"} :
          \E c \in PairCalls :
              /\ c.fn = fn /\ <<c.tokenA, c.tokenB>> = SidePair
              /\ DEXCall(SideFunded, c).err = ""

\* C26: only addLiquidity and removeLiquidity change a pool's total shares or
\* a holder's shares, and only they and swapTokens change a pool's reserves:
\* pause, unpause, withdrawFees and updateFeePercentage, by whoever calls them,
\* leave every pool record and every holder's shares as they were, and a swap
\* leaves the total shares and the holders' shares.
AdminCallsKeepPoolRecords ==
    contract = "DEX" =>
        /\ \A c \in DEXAdminCalls :
              LET w1 == DEXAfter(DEXWorld, c)
              IN  w1.liquidityPools = liquidityPools /\ w1.userLiquidity = userLiquidity
        /\ \A c \in SwapTokensCalls :
              LET w1 == DEXAfter(DEXWorld, c)
              IN  /\ w1.userLiquidity = userLiquidity
                  /\ \A p \in Pairs :
                        w1.liquidityPools[p].totalLiquidity = liquidityPools[p].totalLiquidity

\* On a funded pool the owner's withdrawFees pays out the custody, and the
\* owner's pause (or unpause) and fee update succeed too.
AdminCallsSucceedOnFundedPool ==
    /\ contract = "DEX"
    /\ poolExists(liquidityPools[MainPair])
    /\ \A fn \in {"withdrawFees", "updateFeePercentage"} :
          \E c \in DEXAdminCalls :
              LET r == DEXCall(DEXWorld, c)
              IN  c.fn = fn /\ r.err = "" /\ r.w # DEXWorld
    /\ \E c \in PauseCalls \cup UnpauseCalls : DEXCall(DEXWorld, c).err = ""

\* The transfers of a positive amount between two holders that the sender's
\* balance covers, made while PiCoin is not paused.
CoveredPiTransfers ==
    {c \in PiTransferCalls : c.amount > 0 /\ piBalances[c.sender] >= c.amount /\ ~piPaused}
TransferFee(c) == (c.amount * transactionFee) \div 10000

\* C27: a transfer of amount between two holders takes amount from the sender,
\* gives amount - fee to the recipient and fee to the contract, and adds fee
\* to totalFeesCollected, with fee = floor(amount * transactionFee / 10000).
TransferRoutesFee ==
    contract = "PiCoin" =>
        \A c \in CoveredPiTransfers :
            LET w1 == PiAfter(PiWorld, c)
            IN  /\ w1.balances[c.sender] = piBalances[c.sender] - c.amount
                /\ c.to # PiAddr =>
                      /\ w1.balances[c.to] = piBalances[c.to] + (c.amount - TransferFee(c))
                      /\ w1.balances[PiAddr] = piBalances[PiAddr] + TransferFee(c)
                /\ w1.totalFeesCollected = totalFeesCollected + TransferFee(c)

\* The part of C27 on mints and burns: they charge no fee and leave
\* totalFeesCollected and the contract's own balance as they were.
MintAndBurnChargeNoFee ==
    contract = "PiCoin" =>
        \A c \in MintCalls \cup BurnCalls :
            LET r == PiCall(PiWorld, c)
            IN  r.err = "" =>
                  /\ r.w.totalFeesCollected = totalFeesCollected
                  /\ r.w.balances[PiAddr] = piBalances[PiAddr]
                  /\ \A i \in 1 .. Len(r.w.log) : r.w.log[i].ev # "FeesCollected"

\* C28: every transfer between two holders terminates, and what it leaves to
\* see is a Transfer event to the recipient, a Transfer event to the contract
\* and then a FeesCollected event: the transfers made inside the hook do not
\* start the hook again.
TransferEndsWithThreeEvents ==
    contract = "PiCoin" =>
        \A c \in CoveredPiTransfers :
            LET r == PiCall(PiWorld, c)
            IN  /\ r.err # OutOfGas
                /\ r.err = "" =>
                      /\ Len(r.w.log) = 3
                      /\ r.w.log[1].ev = "Transfer" /\ r.w.log[1].args[2] = c.to
                      /\ r.w.log[2].ev = "Transfer" /\ r.w.log[2].args[2] = PiAddr
                      /\ r.w.log[3].ev = "FeesCollected"

\* C30: adjustSupply by the owner while the current price equals the target
\* price succeeds, emits nothing and leaves the supply, every balance and
\* everything else as it was.
AdjustSupplyAtTargetIsNoOp ==
    contract = "PiCoin" =>
        \A c \in AdjustSupplyCalls :
            (c.sender = owner /\ getCurrentPrice(PiWorld) = TARGET_PRICE) =>
                LET r == PiCall(PiWorld, c)
                IN  r.err = "" /\ r.w.log = <<>> /\ r.w = PiWorld

\* The owner's adjustSupply succeeding on a supply that mints or burns have
\* moved away from the constructor's, with the price at the target.
AdjustSupplyOnChangedSupply ==
    /\ contract = "PiCoin"
    /\ piTotalSupply # TOTAL_SUPPLY
    /\ getCurrentPrice(PiWorld) = TARGET_PRICE
    /\ \E c \in AdjustSupplyCalls : c.sender = owner /\ PiCall(PiWorld, c).err = ""

\* What the external price reference may report, in units of 10^18 wei: under,
\* at and over the target.  The code keeps the reference's address (priceFeed)
\* and never calls it.
ReportedPrices == {TARGET_PRICE - 1, TARGET_PRICE, TARGET_PRICE + 1}

\* C31: adjustSupply acts on the price the external reference reports: with a
\* report under the target the owner's call mints (target - price) * 1000 to
\* the caller and emits SupplyAdjusted, with a report over the target it burns
\* (price - target) * 1000 from the caller.
AdjustSupplyFollowsReportedPrice ==
    contract = "PiCoin" =>
        \A c \in AdjustSupplyCalls, reported \in ReportedPrices :
            (c.sender = owner /\ ~piPaused /\ priceFeed # ZeroAddr) =>
                LET r == PiCall(PiWorld, c)
                IN  /\ reported < TARGET_PRICE =>
                          /\ r.err = ""
                          /\ r.w.totalSupply = piTotalSupply + (TARGET_PRICE - reported) * 1000
                          /\ r.w.log # <<>>
                          /\ r.w.log[Len(r.w.log)].ev = "SupplyAdjusted"
                    /\ (reported > TARGET_PRICE /\ r.err = "") =>
                          r.w.totalSupply = piTotalSupply - (reported - TARGET_PRICE) * 1000

LPInit == Init /\ contract = "LiquidityPool"
LPSpec == LPInit /\ [][LPNext]_vars

PoolFigures(w, s) ==
    <<w.balances[s], w.totalSupply, w.tokenBalance[s], w.tokenBalance[LPAddr]>>

\* C32: for a caller with a recorded balance b > 0, claimRewards() leaves the
\* caller's balance, totalSupply and the token balances of caller and pool
\* exactly as withdraw(b) from the same state leaves them.
ClaimRewardsIsFullWithdraw ==
    contract = "LiquidityPool" =>
        \A s \in Users :
            lpBalances[s] > 0 =>
                PoolFigures(LPAfter(LPWorld, LPCallRecord("claimRewards", s, 0, HonestToken)), s)
                    = PoolFigures(LPAfter(LPWorld, LPCallRecord("withdraw", s, lpBalances[s],
                                                                HonestToken)), s)

HonestDEXCalls == {c \in DEXCalls : c.beh = HonestToken}
Solvent(w) ==
    \A t \in Tokens : w.tokenBalance[t][DEXAddr] >= RecordedReserve(w.liquidityPools, t)

\* C33: the DEX stays solvent per asset: from a state where the custody of each
\* asset covers the reserves recorded for it over all pools, every deposit,
\* withdrawal, swap and owner withdrawFees with an honest asset leaves the
\* custody of each asset covering the recorded reserves.
HonestCallsKeepDEXSolvent ==
    (contract = "DEX" /\ Solvent(DEXWorld)) =>
        \A c \in HonestDEXCalls : Solvent(DEXAfter(DEXWorld, c))

ReserveProduct(pool) == pool.tokenAAmount * pool.tokenBAmount

\* C34: across every successful swap, at every fee percentage the owner can
\* set, the product of the two reserves of the pool swapped through is at least
\* what it was before the swap.
SwapNeverLowersReserveProduct ==
    contract = "DEX" =>
        \A c \in HonestSwapCalls :
            LET r == DEXCall(DEXWorld, c)
            IN  r.err = "" => ReserveProduct(PoolAfter(r, c)) >= ReserveProduct(PoolBefore(c))

\* Behaviours of the DEX without swaps and without fee withdrawals: deposits
\* and withdrawals with honest tokens, and the owner's pause, unpause and fee
\* setting, none of which moves a token.
PoolDeposits == {c \in AddLiquidityCalls : c.beh = HonestToken}
PoolWithdrawals == {c \in RemoveLiquidityCalls : c.beh = HonestToken}
DepositToPool == contract = "DEX" /\ \E c \in PoolDeposits : DEXTransact(c)
WithdrawFromPool == contract = "DEX" /\ \E c \in PoolWithdrawals : DEXTransact(c)
LiquidityNext ==
    \/ DepositToPool
    \/ WithdrawFromPool
    \/ UpdateFeePercentage
    \/ Pause
    \/ Unpause
LiquiditySpec == DEXInit /\ [][LiquidityNext]_vars

\* With honest tokens a holder's balance of a token moves only by that
\* holder's own deposits and withdrawals, so what the holder has withdrawn of
\* the token less what the holder has deposited is the balance less the balance
\* at the start.
WithdrawnLessDeposited(t, h) == tokenBalance[t][h] - InitialBalance(t, h)

\* C35: with deposits and withdrawals only, no holder has withdrawn more of
\* asset A than that holder deposited of it, and likewise for asset B (taken
\* over the holder's pools together, which holds whenever it holds pool by pool).
HolderWithdrawsAtMostOwnDeposits ==
    \A t \in Tokens, h \in Users : WithdrawnLessDeposited(t, h) <= 0

\* C36: in every state of the simplified pool reached by deposit, withdraw and
\* claimRewards calls, totalSupply equals the sum of the recorded balances of
\* all holders.
TotalSupplyIsSumOfBalances ==
    contract = "LiquidityPool" => lpTotalSupply = SumOver(lpBalances, Users)

LiveSockets(symbol) ==
    {ws \in 1 .. Len(sockets) :
        sockets[ws].symbol = symbol /\ sockets[ws].readyState \in {CONNECTING, OPEN}}

\* C37: at any time each symbol has at most one WebSocket that is connecting
\* or open, and if it has one, wsClients holds that socket for the symbol.
OneLiveStreamPerSymbol ==
    \A s \in Symbols :
        /\ Cardinality(LiveSockets(s)) <= 1
        /\ \A ws \in LiveSockets(s) : wsClients[s] = ws

SocketCreatedFor(symbol) ==
    /\ Len(sockets') = Len(sockets) + 1
    /\ sockets'[Len(sockets')].symbol = symbol

\* C38: once stopPriceStream(symbol) was the caller's last call for a symbol,
\* no step creates a WebSocket for that symbol until the caller calls
\* startPriceStream(symbol).
StopPriceStreamIsFinal ==
    [][\A s \in Symbols :
          (lastCall[s] = "stop" /\ lastCall'[s] = "stop") => ~SocketCreatedFor(s)]_vars

====
